---- MODULE Spec2Model ----
(***************************************************************************)
(* Weather Shopper purchase-flow automation (Selenium page objects and the *)
(* test that drives them).                                                 *)
(*                                                                         *)
(* Two specifications share this module:                                   *)
(*   SpecPages  applies one page-object method per step to inputs drawn    *)
(*              from bounded pools and records the call in `call`;         *)
(*   Spec       is test_weather_shopper_flow, one action per step of the   *)
(*              test, against a browser whose pages answer                 *)
(*              nondeterministically.                                      *)
(*                                                                         *)
(* Text is a sequence of one-character strings, so that parsing, matching  *)
(* and case folding are computed and not assumed.                          *)
(***************************************************************************)
EXTENDS Integers, Sequences, FiniteSets, TLC

VARIABLES
    call,              \* SpecPages: the last page-object call, its inputs and result
    pc,                \* Spec: position in test_weather_shopper_flow
    outcome,           \* Spec: "running", "passed", "skipped" or "failed"
    failure,           \* Spec: the message of the failure that ended the test
    temperature,       \* Spec: local `temperature`
    category,          \* Spec: the branch of Step 3 taken
    all_products,      \* Spec: local `all_products`
    first,             \* Spec: local `aloe` / `spf30`
    second,            \* Spec: local `almond` / `spf50`
    navEpoch,          \* Spec: number of navigations the browser has made
    catalogEpoch,      \* Spec: navEpoch at which all_products was read
    addClicks,         \* Spec: add buttons clicked, in order: <<side, stale>>
    attempt,           \* Spec: polls made by the loop of Step 4
    initial_items,     \* Spec: local `initial_items`
    current_items,     \* Spec: local `current_items`
    cart_items,        \* Spec: local `cart_items`
    expected_total,    \* Spec: local `expected_total`
    displayed_total,   \* Spec: local `displayed_total`
    report,            \* Spec: expected and observed count of a count failure
    payLog,            \* Spec: payment operations performed, in order
    ctx                \* Spec: browser context, "top" or "frame"

vars == <<call, pc, outcome, failure, temperature, category, all_products,
          first, second, navEpoch, catalogEpoch, addClicks, attempt,
          initial_items, current_items, cart_items, expected_total,
          displayed_total, report, payLog, ctx>>

flowVars == <<pc, outcome, failure, temperature, category, all_products,
              first, second, navEpoch, catalogEpoch, addClicks, attempt,
              initial_items, current_items, cart_items, expected_total,
              displayed_total, report, payLog, ctx>>

(***************************************************************************)
(* Bounds of the model.                                                    *)
(***************************************************************************)
MaxProducts == 3
MaxRows == 3
MaxInputs == 2
MaxFrames == 3

(***************************************************************************)
(* Program constants.                                                      *)
(***************************************************************************)
MoisturizerBelow == 19
SunscreenAbove == 34
ExpectedItemCount == 2
MaxAttempts == 15
IsElementPresentTimeout == 5

(***************************************************************************)
(* Text primitives (Python str and re semantics).                          *)
(***************************************************************************)
Digits == {"0", "1", "2", "3", "4", "5", "6", "7", "8", "9"}

\* "sup2" stands for the character SUPERSCRIPT TWO: str.isdigit() accepts it,
\* the regular expression \d and int() do not.
IsDigitPy(c) == c \in Digits \/ c = "sup2"

IsDigitRe(c) == c \in Digits

DigitVal(c) ==
    CASE c = "0" -> 0 [] c = "1" -> 1 [] c = "2" -> 2 [] c = "3" -> 3
      [] c = "4" -> 4 [] c = "5" -> 5 [] c = "6" -> 6 [] c = "7" -> 7
      [] c = "8" -> 8 [] c = "9" -> 9

RECURSIVE StrToInt(_)
StrToInt(ds) ==
    IF ds = <<>> THEN 0
    ELSE 10 * StrToInt(SubSeq(ds, 1, Len(ds) - 1)) + DigitVal(ds[Len(ds)])

\* Python: sub in s
Contains(s, sub) ==
    \E i \in 0..(Len(s) - Len(sub)) : SubSeq(s, i + 1, i + Len(sub)) = sub

\* Python: c.lower() for one character; the capitals of the ASCII alphabet
\* are the only cased characters of the texts used here.
LowerChar(c) ==
    CASE c = "A" -> "a" [] c = "B" -> "b" [] c = "C" -> "c" [] c = "D" -> "d"
      [] c = "E" -> "e" [] c = "F" -> "f" [] c = "G" -> "g" [] c = "H" -> "h"
      [] c = "I" -> "i" [] c = "J" -> "j" [] c = "K" -> "k" [] c = "L" -> "l"
      [] c = "M" -> "m" [] c = "N" -> "n" [] c = "O" -> "o" [] c = "P" -> "p"
      [] c = "Q" -> "q" [] c = "R" -> "r" [] c = "S" -> "s" [] c = "T" -> "t"
      [] c = "U" -> "u" [] c = "V" -> "v" [] c = "W" -> "w" [] c = "X" -> "x"
      [] c = "Y" -> "y" [] c = "Z" -> "z"
      [] OTHER -> c

\* Python: s.lower()
Lower(s) == [i \in 1..Len(s) |-> LowerChar(s[i])]

\* The white space str.strip() removes, among the characters used here.
Whitespace == {" ", "\t", "\n", "\r", "\f"}

RECURSIVE Strip(_)
\* Python: s.strip()
Strip(s) ==
    IF s = <<>> THEN s
    ELSE IF Head(s) \in Whitespace THEN Strip(Tail(s))
    ELSE IF s[Len(s)] \in Whitespace THEN Strip(SubSeq(s, 1, Len(s) - 1))
    ELSE s

\* Python: s.replace(c, "")
RemoveChar(s, c) == SelectSeq(s, LAMBDA x : x # c)

RECURSIVE Split(_, _)
\* Python: s.split(sep) for a one-character separator
Split(s, sep) ==
    IF \A i \in 1..Len(s) : s[i] # sep THEN <<s>>
    ELSE LET k == CHOOSE i \in 1..Len(s) :
                      s[i] = sep /\ \A j \in 1..(i - 1) : s[j] # sep
         IN  <<SubSeq(s, 1, k - 1)>> \o Split(SubSeq(s, k + 1, Len(s)), sep)

RECURSIVE DigitPrefix(_)
DigitPrefix(s) ==
    IF s = <<>> \/ ~IsDigitRe(Head(s)) THEN <<>>
    ELSE <<Head(s)>> \o DigitPrefix(Tail(s))

RECURSIVE FirstDigitRun(_)
\* Python: re.search(r'\d+', s), the matched text; <<>> stands for no match
FirstDigitRun(s) ==
    IF s = <<>> THEN <<>>
    ELSE IF IsDigitRe(Head(s)) THEN DigitPrefix(s)
    ELSE FirstDigitRun(Tail(s))

(***************************************************************************)
(* HomePage (src/pages/home_page.py).                                      *)
(***************************************************************************)
\* The temperature display as the page shows it: the element may be absent.
NoDisplay == [present |-> FALSE, text |-> <<>>]

Display(txt) == [present |-> TRUE, text |-> txt]

\* Mutant of GetCurrentTemperature: a text without a digit reads as 0.
GetCurrentTemperatureDefaultZero(display) ==
    IF ~display.present
    THEN [exc |-> "Exception: Element not found", value |-> 0]
    ELSE IF FirstDigitRun(display.text) = <<>>
    THEN [exc |-> "none", value |-> 0]
    ELSE [exc |-> "none", value |-> StrToInt(FirstDigitRun(display.text))]

\* get_current_temperature: find_element raises when the display is absent;
\* re.search(r'\d+', text) is None when the text holds no digit.
GetCurrentTemperature(display) ==
    IF ~display.present
    THEN [exc |-> "Exception: Element not found", value |-> 0]
    ELSE IF FirstDigitRun(display.text) = <<>>
    THEN [exc |-> "Exception: Failed to parse temperature", value |-> 0]
    ELSE [exc |-> "none", value |-> StrToInt(FirstDigitRun(display.text))]

\* Mutant of ShouldBuyMoisturizers: the bound taken inclusive.
ShouldBuyMoisturizersInclusive(t) == t <= MoisturizerBelow

\* should_buy_moisturizers, on the reading it takes
ShouldBuyMoisturizers(t) == t < MoisturizerBelow

\* should_buy_sunscreens, on the reading it takes
ShouldBuySunscreens(t) == t > SunscreenAbove

\* is_moderate_temperature, on the reading it takes
IsModerateTemperature(t) == MoisturizerBelow <= t /\ t <= SunscreenAbove

\* navigate_to_appropriate_category.  d1 is the display at the read made by
\* should_buy_moisturizers, d2 the display at the read made by
\* should_buy_sunscreens (taken only when the first test is false);
\* clickable tells whether click_element finds the button clickable.
NavigateToAppropriateCategory(d1, d2, clickable) ==
    LET r1 == GetCurrentTemperature(d1)
        r2 == GetCurrentTemperature(d2)
    IN  IF r1.exc # "none"
        THEN [exc |-> r1.exc, label |-> "", clicked |-> "", readings |-> <<>>]
        ELSE IF ShouldBuyMoisturizers(r1.value)
        THEN IF clickable
             THEN [exc |-> "none", label |-> "moisturizers",
                   clicked |-> "moisturizers", readings |-> <<r1.value>>]
             ELSE [exc |-> "Exception: Element not clickable", label |-> "",
                   clicked |-> "", readings |-> <<r1.value>>]
        ELSE IF r2.exc # "none"
        THEN [exc |-> r2.exc, label |-> "", clicked |-> "",
              readings |-> <<r1.value>>]
        ELSE IF ShouldBuySunscreens(r2.value)
        THEN IF clickable
             THEN [exc |-> "none", label |-> "sunscreens",
                   clicked |-> "sunscreens",
                   readings |-> <<r1.value, r2.value>>]
             ELSE [exc |-> "Exception: Element not clickable", label |-> "",
                   clicked |-> "", readings |-> <<r1.value, r2.value>>]
        ELSE [exc |-> "none", label |-> "none", clicked |-> "",
              readings |-> <<r1.value, r2.value>>]

(***************************************************************************)
(* ProductPage (src/pages/product_page.py).                                *)
(***************************************************************************)
\* A product dictionary: name, price, and the card whose element and add
\* button it holds.  None is Python's None.
None == [name |-> <<"N", "o", "n", "e">>, price |-> 0 - 1, card |-> 0]

Product(n, p, c) == [name |-> n, price |-> p, card |-> c]

TagAloe == <<"A", "l", "o", "e">>
TagAlmond == <<"A", "l", "m", "o", "n", "d">>
TagSPF30 == <<"S", "P", "F", "-", "3", "0">>
TagSPF50 == <<"S", "P", "F", "-", "5", "0">>
TextSPF == <<"S", "P", "F">>
TextPrice == <<"P", "r", "i", "c", "e">>

\* The first paragraph of a card whose text contains "Price"; <<>> when none.
RECURSIVE FirstPriceParagraph(_)
FirstPriceParagraph(ps) ==
    IF ps = <<>> THEN <<>>
    ELSE IF Contains(Head(ps), TextPrice) THEN Head(ps)
    ELSE FirstPriceParagraph(Tail(ps))

\* int(''.join(filter(str.isdigit, price_text))): -1 stands for ValueError
CardPrice(price_text) ==
    LET ds == SelectSeq(price_text, IsDigitPy)
    IN  IF ds = <<>> \/ \E i \in 1..Len(ds) : ~IsDigitRe(ds[i]) THEN 0 - 1
        ELSE StrToInt(ds)

\* Mutant of ParseCard: a card without an add button is kept.
ParseCardKeepsButtonless(card, i) ==
    IF card.ps = <<>> THEN <<>>
    ELSE IF FirstPriceParagraph(card.ps) = <<>> THEN <<>>
    ELSE IF CardPrice(FirstPriceParagraph(card.ps)) < 0 THEN <<>>
    ELSE <<Product(Strip(card.ps[1]),
                   CardPrice(FirstPriceParagraph(card.ps)), i)>>

\* The loop body of get_all_products for card i: <<>> when the card is
\* skipped (no paragraph, no price label, no parsable price, no button).
ParseCard(card, i) ==
    IF card.ps = <<>> THEN <<>>
    ELSE IF FirstPriceParagraph(card.ps) = <<>> THEN <<>>
    ELSE IF CardPrice(FirstPriceParagraph(card.ps)) < 0 THEN <<>>
    ELSE IF ~card.button THEN <<>>
    ELSE <<Product(Strip(card.ps[1]),
                   CardPrice(FirstPriceParagraph(card.ps)), i)>>

RECURSIVE ParseCards(_, _)
ParseCards(cards, i) ==
    IF i > Len(cards) THEN <<>>
    ELSE ParseCard(cards[i], i) \o ParseCards(cards, i + 1)

\* get_all_products: the wait for a first card times out on a page without
\* cards.
GetAllProducts(cards) ==
    IF cards = <<>>
    THEN [exc |-> "TimeoutException", products |-> <<>>]
    ELSE [exc |-> "none", products |-> ParseCards(cards, 1)]

\* The test of the SPF branch of filter_products_by_ingredient.
SpfMatch(name, spf_number) ==
    \/ Contains(name, <<"S", "P", "F", "-">> \o spf_number)
    \/ Contains(name, <<"S", "P", "F", " ">> \o spf_number)

\* The test of the free-text branch of filter_products_by_ingredient.
TextMatch(name, ingredient) == Contains(Lower(name), Lower(ingredient))

\* filter_products_by_ingredient
FilterProductsByIngredient(products, ingredient) ==
    IF Contains(ingredient, TextSPF)
    THEN IF Len(Split(ingredient, "-")) < 2
         THEN [exc |-> "IndexError", products |-> <<>>]
         ELSE [exc |-> "none",
               products |-> SelectSeq(products,
                   LAMBDA p : SpfMatch(p.name, Split(ingredient, "-")[2]))]
    ELSE [exc |-> "none",
          products |-> SelectSeq(products,
              LAMBDA p : TextMatch(p.name, ingredient))]

RECURSIVE MinByPriceLast(_, _)
\* Mutant of MinByPrice: an equal price replaces the best so far.
MinByPriceLast(best, rest) ==
    IF rest = <<>> THEN best
    ELSE MinByPriceLast(IF Head(rest).price <= best.price
                        THEN Head(rest) ELSE best,
                        Tail(rest))

RECURSIVE MinByPrice(_, _)
\* Python: min(products, key=price) keeps the first of the smallest
MinByPrice(best, rest) ==
    IF rest = <<>> THEN best
    ELSE MinByPrice(IF Head(rest).price < best.price THEN Head(rest) ELSE best,
                    Tail(rest))

\* find_cheapest_product
FindCheapestProduct(products) ==
    IF products = <<>> THEN None
    ELSE MinByPrice(Head(products), Tail(products))

\* The two selections share their shape: read the catalog once, then filter
\* and take the cheapest for each of the two tags.
SelectPair(cards, tag1, tag2) ==
    LET got == GetAllProducts(cards)
    IN  IF got.exc # "none"
        THEN [exc |-> got.exc, pair |-> <<None, None>>]
        ELSE [exc |-> "none",
              pair |-> <<FindCheapestProduct(
                             FilterProductsByIngredient(got.products, tag1).products),
                         FindCheapestProduct(
                             FilterProductsByIngredient(got.products, tag2).products)>>]

\* select_moisturizer_products
SelectMoisturizerProducts(cards) == SelectPair(cards, TagAloe, TagAlmond)

\* select_sunscreen_products
SelectSunscreenProducts(cards) == SelectPair(cards, TagSPF30, TagSPF50)

\* Ways add_product_to_cart can go for a product with a button, by what the
\* browser does: the button never becomes clickable; its handle is stale;
\* it is clicked and the cart indicator changes; it is clicked and the
\* indicator still reads 'Empty' when the wait ends.
AddProductOutcomes ==
    {"not_clickable", "stale", "indicator_changed", "indicator_unchanged"}

\* Mutant of AddProductToCart: the wait for the cart indicator is not
\* wrapped, so its timeout leaves the method like any other exception.
AddProductToCartStrictIndicator(product, o) ==
    IF product = None
    THEN [exc |-> "Exception", clicks |-> 0, warned |-> FALSE]
    ELSE CASE o = "not_clickable" ->
                [exc |-> "TimeoutException", clicks |-> 0, warned |-> FALSE]
           [] o = "stale" ->
                [exc |-> "StaleElementReferenceException", clicks |-> 0,
                 warned |-> FALSE]
           [] o = "indicator_changed" ->
                [exc |-> "none", clicks |-> 1, warned |-> FALSE]
           [] OTHER ->
                [exc |-> "TimeoutException", clicks |-> 1, warned |-> FALSE]

\* add_product_to_cart: a falsy product raises Exception; an exception of
\* the wait for the button or of the scripts is logged and re-raised; the
\* click is one execute_script call; an exception of the wait for the cart
\* indicator is swallowed with a warning.
AddProductToCart(product, o) ==
    IF product = None
    THEN [exc |-> "Exception", clicks |-> 0, warned |-> FALSE]
    ELSE CASE o = "not_clickable" ->
                [exc |-> "TimeoutException", clicks |-> 0, warned |-> FALSE]
           [] o = "stale" ->
                [exc |-> "StaleElementReferenceException", clicks |-> 0,
                 warned |-> FALSE]
           [] o = "indicator_changed" ->
                [exc |-> "none", clicks |-> 1, warned |-> FALSE]
           [] OTHER ->
                [exc |-> "none", clicks |-> 1, warned |-> TRUE]

CategoryMoisturizers == "moisturizers"
CategorySunscreens == "sunscreens"

\* Mutant of AddSelectedProductsToCart: the total counts the first product
\* twice.
AddSelectedProductsToCartFirstTwice(cards, product_category, o1, o2) ==
    LET sel == IF product_category = CategoryMoisturizers
               THEN SelectMoisturizerProducts(cards)
               ELSE SelectSunscreenProducts(cards)
        product1 == sel.pair[1]
        product2 == sel.pair[2]
        add1 == AddProductToCart(product1, o1)
        add2 == AddProductToCart(product2, o2)
        Raise(e, n) == [exc |-> e, pair |-> <<None, None>>,
                        total_price |-> 0, clicks |-> n]
    IN  IF product_category \notin {CategoryMoisturizers, CategorySunscreens}
        THEN Raise("ValueError", <<>>)
        ELSE IF sel.exc # "none" THEN Raise(sel.exc, <<>>)
        ELSE IF product1 = None \/ product2 = None
        THEN Raise("Exception", <<>>)
        ELSE IF add1.exc # "none"
        THEN Raise(add1.exc, [k \in 1..add1.clicks |-> product1.card])
        ELSE IF add2.exc # "none"
        THEN Raise(add2.exc, <<product1.card>>
                                 \o [k \in 1..add2.clicks |-> product2.card])
        ELSE [exc |-> "none", pair |-> <<product1, product2>>,
              total_price |-> product1.price + product1.price,
              clicks |-> <<product1.card, product2.card>>]

\* Mutant of AddSelectedProductsToCart: the first product is added as soon
\* as it is found, before the second is looked at.
AddSelectedProductsToCartEagerAdd(cards, product_category, o1, o2) ==
    LET sel == IF product_category = CategoryMoisturizers
               THEN SelectMoisturizerProducts(cards)
               ELSE SelectSunscreenProducts(cards)
        product1 == sel.pair[1]
        product2 == sel.pair[2]
        add1 == AddProductToCart(product1, o1)
        add2 == AddProductToCart(product2, o2)
        Raise(e, n) == [exc |-> e, pair |-> <<None, None>>,
                        total_price |-> 0, clicks |-> n]
    IN  IF product_category \notin {CategoryMoisturizers, CategorySunscreens}
        THEN Raise("ValueError", <<>>)
        ELSE IF sel.exc # "none" THEN Raise(sel.exc, <<>>)
        ELSE IF product1 = None THEN Raise("Exception", <<>>)
        ELSE IF add1.exc # "none"
        THEN Raise(add1.exc, [k \in 1..add1.clicks |-> product1.card])
        ELSE IF product2 = None THEN Raise("Exception", <<product1.card>>)
        ELSE IF add2.exc # "none"
        THEN Raise(add2.exc, <<product1.card>>
                                 \o [k \in 1..add2.clicks |-> product2.card])
        ELSE [exc |-> "none", pair |-> <<product1, product2>>,
              total_price |-> product1.price + product2.price,
              clicks |-> <<product1.card, product2.card>>]

\* add_selected_products_to_cart: clicks is the sequence of the cards whose
\* add button was clicked, in order.
AddSelectedProductsToCart(cards, product_category, o1, o2) ==
    LET sel == IF product_category = CategoryMoisturizers
               THEN SelectMoisturizerProducts(cards)
               ELSE SelectSunscreenProducts(cards)
        product1 == sel.pair[1]
        product2 == sel.pair[2]
        add1 == AddProductToCart(product1, o1)
        add2 == AddProductToCart(product2, o2)
        Raise(e, n) == [exc |-> e, pair |-> <<None, None>>,
                        total_price |-> 0, clicks |-> n]
    IN  IF product_category \notin {CategoryMoisturizers, CategorySunscreens}
        THEN Raise("ValueError", <<>>)
        ELSE IF sel.exc # "none" THEN Raise(sel.exc, <<>>)
        ELSE IF product1 = None \/ product2 = None
        THEN Raise("Exception", <<>>)
        ELSE IF add1.exc # "none"
        THEN Raise(add1.exc, [k \in 1..add1.clicks |-> product1.card])
        ELSE IF add2.exc # "none"
        THEN Raise(add2.exc, <<product1.card>>
                                 \o [k \in 1..add2.clicks |-> product2.card])
        ELSE [exc |-> "none", pair |-> <<product1, product2>>,
              total_price |-> product1.price + product2.price,
              clicks |-> <<product1.card, product2.card>>]

(***************************************************************************)
(* CartPage (src/pages/cart_page.py).                                      *)
(***************************************************************************)
\* What the cart page shows at one read: whether the cart table is there,
\* and the rows found by the first selector that finds any.  A row is the
\* sequence of the texts of its td cells (a header row of th cells is <<>>).
CartItem(n, p, t) == [name |-> n, price |-> p, price_text |-> t]

\* Mutant of ParseRow: a price cell without a digit counts as price 0.
ParseRowDefaultZero(cells) ==
    IF Len(cells) >= 2
    THEN LET price_match == FirstDigitRun(RemoveChar(Strip(cells[2]), ","))
         IN  <<CartItem(Strip(cells[1]), StrToInt(price_match), Strip(cells[2]))>>
    ELSE <<>>

\* The loop body of get_cart_items for one row: <<>> when the row is skipped.
ParseRow(cells) ==
    IF Len(cells) >= 2
    THEN LET name == Strip(cells[1])
             price_text == Strip(cells[2])
             price_match == FirstDigitRun(RemoveChar(price_text, ","))
         IN  IF ~\E i \in 1..Len(price_text) : IsDigitPy(price_text[i])
             THEN <<>>
             ELSE IF price_match # <<>>
             THEN <<CartItem(name, StrToInt(price_match), price_text)>>
             ELSE <<>>
    ELSE <<>>

RECURSIVE ParseRows(_)
ParseRows(rows) ==
    IF rows = <<>> THEN <<>>
    ELSE ParseRow(Head(rows)) \o ParseRows(Tail(rows))

\* The rows get_cart_items reads on the page the browser shows, from the
\* wait for the table on: an exception (the wait timing out) is caught and
\* yields the empty list.
ReadCart(view) ==
    IF ~view.table THEN <<>>
    ELSE IF view.rows = <<>> THEN <<>>
    ELSE ParseRows(view.rows)

\* The browser as get_cart_items finds it: the current URL, whether the page
\* has the #cart button, what the page shows, and what the page shows that a
\* click on #cart leads to.
Browser(url, cart_link, view, after) ==
    [url |-> url, cart_link |-> cart_link, view |-> view, after |-> after]

\* "cart" in self.driver.current_url.lower()
UrlHasCart(url) == Contains(Lower(url), <<"c", "a", "r", "t">>)

\* get_cart_items: at a URL without 'cart' it first calls navigate_to_cart,
\* which looks for #cart (NoSuchElementException without it), clicks it and
\* waits for the table; every exception is caught and yields the empty
\* list.  navigated tells whether the click was made.
GetCartItems(b) ==
    IF UrlHasCart(b.url)
    THEN [items |-> ReadCart(b.view), navigated |-> FALSE]
    ELSE IF ~b.cart_link
    THEN [items |-> <<>>, navigated |-> FALSE]
    ELSE [items |-> ReadCart(b.after), navigated |-> TRUE]

RECURSIVE SumPrices(_)
SumPrices(items) ==
    IF items = <<>> THEN 0 ELSE Head(items).price + SumPrices(Tail(items))

\* Mutant of CalculateExpectedTotal: only the first line is counted.
CalculateExpectedTotalFirstLine(b) ==
    [total |-> IF GetCartItems(b).items = <<>> THEN 0
               ELSE GetCartItems(b).items[1].price,
     navigated |-> GetCartItems(b).navigated]

\* calculate_expected_total: it reads the cart itself.
CalculateExpectedTotal(b) ==
    [total |-> SumPrices(GetCartItems(b).items),
     navigated |-> GetCartItems(b).navigated]

\* get_displayed_total: 0 when the total is absent or holds no digit run.
GetDisplayedTotal(total) ==
    IF ~total.present THEN 0
    ELSE LET price_match == FirstDigitRun(RemoveChar(Strip(total.text), ","))
         IN  IF price_match # <<>> THEN StrToInt(price_match) ELSE 0

(***************************************************************************)
(* PaymentPage (src/pages/payment_page.py).                                *)
(*                                                                         *)
(* A method is modelled by the operations it performs on the browser, in   *)
(* order, for each way the page can answer; the browser context it leaves  *)
(* is computed from those operations.                                      *)
(***************************************************************************)
\* The browser context after the operations `events`, starting in c:
\* switch_to.frame enters the payment frame, switch_to.default_content
\* returns to the top-level page.
RECURSIVE ContextAfter(_, _)
ContextAfter(c, events) ==
    IF events = <<>> THEN c
    ELSE ContextAfter(CASE Head(events) = "enter_frame" -> "frame"
                        [] Head(events) = "default_content" -> "top"
                        [] OTHER -> c,
                      Tail(events))

\* Mutant of WaitForPaymentForm: a form that does not load leaves the
\* browser inside the frame.
WaitForPaymentFormStaysInFrame(o) ==
    CASE o = "frame_not_found" ->
           [ret |-> FALSE, events |-> <<"default_content">>]
      [] o = "form_not_loaded" ->
           [ret |-> FALSE, events |-> <<"enter_frame">>]
      [] OTHER ->
           [ret |-> TRUE, events |-> <<"enter_frame", "default_content">>]

\* wait_for_payment_form: every path ends with default_content.
WaitForPaymentForm(o) ==
    CASE o = "frame_not_found" ->
           [ret |-> FALSE, events |-> <<"default_content">>]
      [] o = "form_not_loaded" ->
           [ret |-> FALSE, events |-> <<"enter_frame", "default_content">>]
      [] OTHER ->
           [ret |-> TRUE, events |-> <<"enter_frame", "default_content">>]

\* Ways fill_payment_form can end, by what the page offers.
FillOutcomes ==
    {"frame_not_found", "form_not_loaded", "frame_timeout", "no_email",
     "no_card", "no_expiry", "no_cvc", "filled", "filled_without_zip"}

\* The fields fill_payment_form writes before it ends in way o.
FieldsWritten(o) ==
    CASE o = "no_email" -> <<>>
      [] o = "no_card" -> <<"email">>
      [] o = "no_expiry" -> <<"email", "card">>
      [] o = "no_cvc" -> <<"email", "card", "expiry">>
      [] o = "filled_without_zip" -> <<"email", "card", "expiry", "cvc">>
      [] o = "filled" -> <<"email", "card", "expiry", "cvc", "zip">>
      [] OTHER -> <<>>

\* Mutant of FillPaymentForm: a missing postal code field ends the call like
\* any other missing field.
FillPaymentFormZipRequired(o) ==
    LET probe == WaitForPaymentForm(o)
        done == o = "filled"
        events ==
            IF ~probe.ret THEN probe.events
            ELSE IF o = "frame_timeout" THEN probe.events
            ELSE probe.events \o <<"enter_frame">> \o FieldsWritten(o)
                     \o (IF done THEN <<"default_content">> ELSE <<>>)
    IN  [raised |-> ~done, events |-> events,
         ctx |-> ContextAfter("top", events)]

\* Mutant of FillPaymentForm: a missing CVC field is passed over like a
\* missing postal code.
FillPaymentFormOptionalCvc(o) ==
    LET probe == WaitForPaymentForm(o)
        done == o \in {"filled", "filled_without_zip", "no_cvc"}
        events ==
            IF ~probe.ret THEN probe.events
            ELSE IF o = "frame_timeout" THEN probe.events
            ELSE probe.events \o <<"enter_frame">> \o FieldsWritten(o)
                     \o (IF done THEN <<"default_content">> ELSE <<>>)
    IN  [raised |-> ~done, events |-> events,
         ctx |-> ContextAfter("top", events)]

\* fill_payment_form: it raises when wait_for_payment_form returns False,
\* when the frame is not available, and when a field before the postal
\* code is not found; default_content is its last statement.
FillPaymentForm(o) ==
    LET probe == WaitForPaymentForm(o)
        done == o \in {"filled", "filled_without_zip"}
        events ==
            IF ~probe.ret THEN probe.events
            ELSE IF o = "frame_timeout" THEN probe.events
            ELSE probe.events \o <<"enter_frame">> \o FieldsWritten(o)
                     \o (IF done THEN <<"default_content">> ELSE <<>>)
    IN  [raised |-> ~done, events |-> events,
         ctx |-> ContextAfter("top", events)]

\* Keys.TAB
KeyTab == <<"TAB">>

\* Python: s[i:j] with 0 <= i <= j
Slice(s, i, j) ==
    SubSeq(s, i + 1, IF j < Len(s) THEN j ELSE Len(s))

\* Mutant of CardChunks: the card number is sent in one send_keys call.
CardChunksOneBlock(card) ==
    LET card_number == RemoveChar(card, " ")
    IN  IF card_number = <<>> THEN <<>> ELSE <<card_number>>

\* The chunks of the loop `for i in range(0, len(card_number), 4)`, one
\* send_keys call each.
CardChunks(card) ==
    LET card_number == RemoveChar(card, " ")
    IN  [k \in 1..((Len(card_number) + 3) \div 4) |->
            Slice(card_number, 4 * (k - 1), 4 * k)]

\* exp.replace("/", "").replace(" ", "")[:4]
ExpDigits(exp) == Slice(RemoveChar(RemoveChar(exp, "/"), " "), 0, 4)

\* Mutant of ExpiryWrites: the focus is not advanced after the year.
ExpiryWritesWithoutTab(exp) ==
    <<Slice(ExpDigits(exp), 0, 2), Slice(ExpDigits(exp), 2, 4)>>

\* The send_keys calls on the expiry field.
ExpiryWrites(exp) ==
    <<Slice(ExpDigits(exp), 0, 2), Slice(ExpDigits(exp), 2, 4), KeyTab>>

\* The send_keys calls fill_payment_form makes on one field.
FieldWrites(field, email, card, exp, cvc, zip_code) ==
    LET keys == CASE field = "email" -> <<email>>
                  [] field = "card" -> CardChunks(card)
                  [] field = "expiry" -> ExpiryWrites(exp)
                  [] field = "cvc" -> <<cvc, KeyTab>>
                  [] OTHER -> <<zip_code>>
    IN  [k \in 1..Len(keys) |-> [field |-> field, keys |-> keys[k]]]

RECURSIVE WritesOf(_, _, _, _, _, _)
WritesOf(fields, email, card, exp, cvc, zip_code) ==
    IF fields = <<>> THEN <<>>
    ELSE FieldWrites(Head(fields), email, card, exp, cvc, zip_code)
             \o WritesOf(Tail(fields), email, card, exp, cvc, zip_code)

\* The send_keys calls of fill_payment_form when it ends in way o, in order.
FillPaymentFormWrites(o, email, card, exp, cvc, zip_code) ==
    WritesOf(FieldsWritten(o), email, card, exp, cvc, zip_code)

\* The fields of the payment form; all but the postal code are required.
FieldNames == {"email", "card", "expiry", "cvc", "zip"}

\* An input element of the payment frame, by the attributes the locators
\* read; <<>> is an attribute the element does not have.
Input(name, id, type, placeholder, aria) ==
    [name |-> name, id |-> id, type |-> type, placeholder |-> placeholder,
     aria |-> aria]

\* Whether a locator of a field matches an input element.  "primary" is
\* the class locator of the field (EMAIL_FIELD, ...), "alt" its ALT_
\* locator, "xpath" the XPath of its fill method, and "css1", "css2",
\* "css3" the branches of the selector list fill_payment_form uses for it.
Matches(e, field, locator) ==
    CASE field = "email" ->
           CASE locator = "primary" -> e.name = <<"e", "m", "a", "i", "l">>
             [] locator = "alt" -> e.id = <<"e", "m", "a", "i", "l">>
             [] locator = "xpath" ->
                  \/ e.type = <<"e", "m", "a", "i", "l">>
                  \/ Contains(e.placeholder, <<"e", "m", "a", "i", "l">>)
                  \/ Contains(e.placeholder, <<"E", "m", "a", "i", "l">>)
             [] locator = "css1" -> e.type = <<"e", "m", "a", "i", "l">>
             [] OTHER -> FALSE
      [] field = "card" ->
           CASE locator = "primary" -> e.name = <<"c", "a", "r", "d", "n", "u", "m", "b", "e", "r">>
             [] locator = "alt" -> e.id = <<"c", "a", "r", "d", "-", "n", "u", "m", "b", "e", "r">>
             [] locator = "xpath" ->
                  \/ Contains(e.placeholder, <<"c", "a", "r", "d">>)
                  \/ Contains(e.placeholder, <<"C", "a", "r", "d">>)
                  \/ Contains(e.name, <<"c", "a", "r", "d">>)
             [] locator = "css1" -> Contains(e.placeholder, <<"c", "a", "r", "t", "e">>)
             [] locator = "css2" -> Contains(e.placeholder, <<"c", "a", "r", "d">>)
             [] OTHER -> FALSE
      [] field = "expiry" ->
           CASE locator = "primary" -> e.name = <<"e", "x", "p", "-", "d", "a", "t", "e">>
             [] locator = "alt" -> e.id = <<"c", "a", "r", "d", "-", "e", "x", "p", "i", "r", "y">>
             [] locator = "xpath" ->
                  \/ Contains(e.placeholder, <<"e", "x", "p", "i", "r">>)
                  \/ Contains(e.placeholder, <<"M", "M">>)
                  \/ Contains(e.name, <<"e", "x", "p">>)
             [] locator = "css1" -> Contains(e.placeholder, <<"M", "M">>)
             [] locator = "css2" -> Contains(e.aria, <<"E", "x", "p", "i", "r", "a", "t", "i", "o", "n">>)
             [] locator = "css3" -> Contains(e.name, <<"e", "x", "p">>)
             [] OTHER -> FALSE
      [] field = "cvc" ->
           CASE locator = "primary" -> e.name = <<"c", "v", "c">>
             [] locator = "alt" -> e.id = <<"c", "a", "r", "d", "-", "c", "v", "c">>
             [] locator = "xpath" ->
                  \/ Contains(e.placeholder, <<"C", "V", "C">>)
                  \/ Contains(e.placeholder, <<"c", "v", "c">>)
                  \/ Contains(e.name, <<"c", "v", "c">>)
             [] locator = "css1" -> Contains(e.placeholder, <<"C", "V", "V">>)
             [] locator = "css2" -> Contains(e.placeholder, <<"C", "V", "C">>)
             [] OTHER -> FALSE
      [] OTHER ->
           CASE locator = "primary" -> e.name = <<"p", "o", "s", "t", "a", "l">>
             [] locator = "alt" -> e.id = <<"b", "i", "l", "l", "i", "n", "g", "-", "z", "i", "p">>
             [] locator = "xpath" ->
                  \/ Contains(e.placeholder, <<"z", "i", "p">>)
                  \/ Contains(e.placeholder, <<"p", "o", "s", "t", "a", "l">>)
                  \/ Contains(e.name, <<"p", "o", "s", "t", "a", "l">>)
             [] locator = "css1" -> Contains(e.placeholder, <<"Z", "I", "P">>)
             [] locator = "css2" -> Contains(e.placeholder, <<"z", "i", "p">>)
             [] locator = "css3" -> Contains(e.placeholder, <<"C", "o", "d", "e", " ", "p", "o", "s", "t", "a", "l">>)
             [] OTHER -> FALSE

\* The first element of the page, in document order, that one of the
\* locators matches; 0 when there is none.
FirstMatch(page, field, locators) ==
    IF \E i \in 1..Len(page) :
           \E l \in locators : Matches(page[i], field, l)
    THEN CHOOSE i \in 1..Len(page) :
             /\ \E l \in locators : Matches(page[i], field, l)
             /\ \A j \in 1..(i - 1) :
                   \A l \in locators : ~Matches(page[j], field, l)
    ELSE 0

\* The locators fill_<field>_field tries, in order.
MethodLocators == <<"primary", "alt", "xpath">>

\* fill_email_field, fill_card_number_field, fill_expiry_field,
\* fill_cvc_field and fill_zip_field share their shape:
\* is_element_present(primary), else is_element_present(alt), else
\* find_element by XPath; an absent element costs is_element_present its
\* whole timeout.  Only fill_zip_field swallows the exception.
FillFieldMethod(field, page) ==
    LET p == FirstMatch(page, field, {"primary"})
        a == FirstMatch(page, field, {"alt"})
        x == FirstMatch(page, field, {"xpath"})
    IN  IF p # 0
        THEN [raised |-> FALSE, target |-> p, via |-> "primary",
              waited |-> 0, alternatives |-> MethodLocators]
        ELSE IF a # 0
        THEN [raised |-> FALSE, target |-> a, via |-> "alt",
              waited |-> IsElementPresentTimeout,
              alternatives |-> MethodLocators]
        ELSE IF x # 0
        THEN [raised |-> FALSE, target |-> x, via |-> "xpath",
              waited |-> IsElementPresentTimeout + IsElementPresentTimeout,
              alternatives |-> MethodLocators]
        ELSE [raised |-> field # "zip", target |-> 0, via |-> "",
              waited |-> IsElementPresentTimeout + IsElementPresentTimeout,
              alternatives |-> MethodLocators]

\* The branches of the selector list fill_payment_form uses for a field.
FormLocators(field) ==
    CASE field = "email" -> <<"css1">>
      [] field = "card" -> <<"css1", "css2">>
      [] field = "expiry" -> <<"css1", "css2", "css3">>
      [] field = "cvc" -> <<"css1", "css2">>
      [] OTHER -> <<"css1", "css2", "css3">>

Range(q) == {q[k] : k \in 1..Len(q)}

\* The resolution of one field in fill_payment_form: one find_element with
\* the selector list, which yields the first element in document order
\* that matches a branch, or raises; only the postal code is in a try.
FormField(field, page) ==
    LET t == FirstMatch(page, field, Range(FormLocators(field)))
    IN  IF t # 0
        THEN [raised |-> FALSE, target |-> t,
              via |-> FormLocators(field)[
                          CHOOSE k \in 1..Len(FormLocators(field)) :
                              /\ Matches(page[t], field,
                                         FormLocators(field)[k])
                              /\ \A j \in 1..(k - 1) :
                                    ~Matches(page[t], field,
                                             FormLocators(field)[j])],
              waited |-> 0, alternatives |-> FormLocators(field)]
        ELSE [raised |-> field # "zip", target |-> 0, via |-> "",
              waited |-> 0, alternatives |-> FormLocators(field)]

\* What a frame of the page is to switch_to_stripe_iframe_if_needed: a
\* frame with the email field, with the card number field, with both, with
\* neither, one that cannot be entered, and one in which the look for a
\* field raises something else than a timeout.
FrameKinds == {"email", "card", "both", "other", "unenterable", "broken"}

\* Mutant of ScanFrames: a frame without payment field is not left.
RECURSIVE ScanFramesWithoutLeaving(_, _)
ScanFramesWithoutLeaving(frames, i) ==
    IF i > Len(frames)
    THEN [ret |-> FALSE, frame |-> 0, events |-> <<>>]
    ELSE IF frames[i] = "unenterable"
    THEN LET rest == ScanFramesWithoutLeaving(frames, i + 1)
         IN  [rest EXCEPT !.events = <<"default_content">> \o @]
    ELSE IF frames[i] \in {"email", "card", "both"}
    THEN [ret |-> TRUE, frame |-> i, events |-> <<"enter_frame">>]
    ELSE LET rest == ScanFramesWithoutLeaving(frames, i + 1)
         IN  [rest EXCEPT !.events = <<"enter_frame">> \o @]

\* The loop of switch_to_stripe_iframe_if_needed from frame i on.
RECURSIVE ScanFrames(_, _)
ScanFrames(frames, i) ==
    IF i > Len(frames)
    THEN [ret |-> FALSE, frame |-> 0, events |-> <<>>]
    ELSE IF frames[i] = "unenterable"
    THEN LET rest == ScanFrames(frames, i + 1)
         IN  [rest EXCEPT !.events = <<"default_content">> \o @]
    ELSE IF frames[i] \in {"email", "card", "both"}
    THEN [ret |-> TRUE, frame |-> i, events |-> <<"enter_frame">>]
    ELSE LET rest == ScanFrames(frames, i + 1)
         IN  [rest EXCEPT
                 !.events = <<"enter_frame", "default_content">> \o @]

\* switch_to_stripe_iframe_if_needed: listed tells whether find_elements
\* returned; when it raised, the handler calls default_content and returns
\* False.
SwitchToStripeIframeIfNeeded(frames, listed) ==
    LET scan == IF listed THEN ScanFrames(frames, 1)
                ELSE [ret |-> FALSE, frame |-> 0,
                      events |-> <<"default_content">>]
    IN  [ret |-> scan.ret, frame |-> scan.frame, events |-> scan.events,
         ctx |-> ContextAfter("top", scan.events)]

\* Ways submit_payment_form can end.
SubmitFormOutcomes ==
    {"frame_timeout", "no_button", "click_failed", "payer_clicked",
     "submit_clicked"}

\* Mutant of SubmitPaymentForm: the click on the button found is repeated.
SubmitPaymentFormClickTwice(o) ==
    LET clicked == o \in {"payer_clicked", "submit_clicked"}
        events ==
            IF o = "frame_timeout" THEN <<"default_content">>
            ELSE IF clicked
            THEN <<"enter_frame", "submit_click", "submit_click",
                   "default_content">>
            ELSE <<"enter_frame", "default_content">>
    IN  [raised |-> ~clicked, events |-> events]

\* Mutant of SubmitPaymentForm: the handler raises again without
\* default_content.
SubmitPaymentFormNoRestore(o) ==
    LET clicked == o \in {"payer_clicked", "submit_clicked"}
        events ==
            IF o = "frame_timeout" THEN <<>>
            ELSE IF clicked
            THEN <<"enter_frame", "submit_click", "default_content">>
            ELSE <<"enter_frame">>
    IN  [raised |-> ~clicked, events |-> events]

\* submit_payment_form: the frame, the 'Payer' button or else the submit
\* button, default_content; the handler calls default_content and raises
\* again.
SubmitPaymentForm(o) ==
    LET clicked == o \in {"payer_clicked", "submit_clicked"}
        events ==
            IF o = "frame_timeout" THEN <<"default_content">>
            ELSE IF clicked
            THEN <<"enter_frame", "submit_click", "default_content">>
            ELSE <<"enter_frame", "default_content">>
    IN  [raised |-> ~clicked, events |-> events]

\* Ways submit_payment can end.
SubmitOutcomes ==
    {"frame_timeout", "no_button", "click_failed", "success", "no_success"}

\* submit_payment: submit_payment_form and the wait for a success message;
\* every exception is caught and turned into False.
SubmitPayment(o) ==
    LET form == SubmitPaymentForm(IF o \in {"success", "no_success"}
                                  THEN "submit_clicked" ELSE o)
        events == form.events
                    \o (IF form.raised THEN <<>>
                        ELSE IF o = "success" THEN <<"success_seen">>
                        ELSE <<"wait_elapsed">>)
    IN  [ret |-> ~form.raised /\ o = "success",
         events |-> events,
         ctx |-> ContextAfter("top", events)]

(***************************************************************************)
(* Input pools.                                                            *)
(***************************************************************************)
SeqsUpTo(S, n) == UNION {[1..k -> S] : k \in 0..n}

\* Temperature displays: every reading from 0 to 49, a reading with a unit,
\* signed readings, texts without a digit, and a missing element.
TempTexts ==
    {<<a, b>> : a \in {"1", "2", "3", "4"}, b \in Digits}
        \cup {<<b>> : b \in Digits}
        \cup {<<"1", "8", " ", "C">>, <<"-", "5">>, <<"-", "4", "0">>,
              <<"N", "a", "N">>, <<>>}

TempDisplays == {Display(t) : t \in TempTexts} \cup {NoDisplay}

\* Product names as a catalog shows them.
NamePool ==
    {<<"A", "l", "o", "e">>,
     <<"A", "L", "M", "O", "N", "D">>,
     <<"S", "P", "F", "-", "3", "0">>,
     <<"S", "P", "F", " ", "3", "0">>,
     <<"S", "P", "F", "-", "3", "0", "0">>,
     <<"S", "P", "F", "-", "5", "0">>,
     <<"s", "p", "f", "-", "3", "0">>}

\* Tags the filter is called with: the four of the program, a lower-case
\* ingredient, and an SPF tag without a number.
TagPool ==
    {TagAloe, TagAlmond, TagSPF30, TagSPF50, <<"a", "l", "o", "e">>, TextSPF}

PricePool == {150, 200, 300}

\* Product lists as get_all_products builds them: card indices increase.
NamedLists ==
    {[i \in 1..Len(q) |-> Product(q[i], 150, i)] :
        q \in SeqsUpTo(NamePool, MaxProducts)}

PricedLists ==
    {[i \in 1..Len(q) |-> Product(TagAloe, q[i], i)] :
        q \in SeqsUpTo(PricePool, MaxProducts)}

\* Catalog cards: a name paragraph and a price paragraph, and cards that are
\* no product (no paragraph, no price label, no digit, no button).
Card(ps, b) == [ps |-> ps, button |-> b]

LabelPool ==
    {<<"P", "r", "i", "c", "e", ":", " ", "1", "5", "0">>,
     <<"P", "r", "i", "c", "e", ":", " ", "2", "0", "0">>}

CardPool ==
    {Card(<<n, l>>, TRUE) :
        n \in {TagAloe, TagAlmond, TagSPF30, TagSPF50}, l \in LabelPool}
        \cup {Card(<<>>, TRUE),
              Card(<<TagAloe>>, TRUE),
              Card(<<TagAlmond, <<"P", "r", "i", "c", "e", ":", " ">>>>, TRUE),
              Card(<<TagSPF30, <<"P", "r", "i", "c", "e", ":", " ", "9", "0">>>>,
                   FALSE),
              Card(<<<<"S", "P", "F", "-", "3", "0", "0">>,
                     <<"P", "r", "i", "c", "e", ":", " ", "1", "5", "0">>>>,
                   TRUE)}

Catalogs == SeqsUpTo(CardPool, MaxProducts)

\* Cards for the reading of a catalog: a product; price labels with a
\* thousands separator and with a second number; a card without paragraph,
\* one without price label, one whose price label has no digit, one whose
\* only digit is not a decimal digit, one whose price label mixes decimal
\* digits with such a character, and one without add button.
ScanCardPool ==
    {Card(<<TagAloe, <<"P", "r", "i", "c", "e", ":", " ", "1", "5", "0">>>>,
          TRUE),
     Card(<<TagAlmond,
            <<"P", "r", "i", "c", "e", ":", " ", "1", ",", "2", "0", "0">>>>,
          TRUE),
     Card(<<TagSPF50,
            <<"P", "r", "i", "c", "e", ":", " ", "9", "0", " ", "(", "7", ")">>>>,
          TRUE),
     Card(<<>>, TRUE),
     Card(<<TagAloe>>, TRUE),
     Card(<<TagAlmond, <<"P", "r", "i", "c", "e", ":", " ">>>>, TRUE),
     Card(<<TagAlmond, <<"P", "r", "i", "c", "e", ":", " ", "sup2">>>>, TRUE),
     Card(<<TagSPF30,
            <<"P", "r", "i", "c", "e", ":", " ", "9", "0", "sup2">>>>,
          TRUE),
     Card(<<TagSPF30, <<"P", "r", "i", "c", "e", ":", " ", "9", "0">>>>,
          FALSE)}

ScanCatalogs == SeqsUpTo(ScanCardPool, MaxProducts)

\* Cart rows: two product rows, a row priced with a thousands separator, a
\* header of td cells, a header of th cells, a one-cell row, and a price
\* cell that str.isdigit() accepts and \d does not.
RowPool ==
    {<<TagAloe, <<"1", "5", "0">>>>,
     <<TagAlmond, <<"R", "s", ".", " ", "3", "5", "0">>>>,
     <<TagSPF50, <<"1", ",", "2", "0", "0">>>>,
     <<<<"I", "t", "e", "m">>, TextPrice>>,
     <<>>,
     <<TagAloe>>,
     <<TagAlmond, <<"sup2">>>>}

CartView(t, rows) == [table |-> t, rows |-> rows]

\* URLs: the cart page, the cart page in capitals, a catalog page.
UrlCart == <<"/", "c", "a", "r", "t">>
UrlCartCapitals == <<"/", "C", "A", "R", "T">>
UrlCatalog == <<"/", "m", "o", "i", "s", "t", "u", "r", "i", "z", "e", "r">>

\* The browser on the cart page showing a view.
AtCartPage(view) == Browser(UrlCart, TRUE, view, view)

\* A catalog page, with or without the #cart button, from which a click on
\* #cart leads to a page showing a view.
AtCatalogPage(cart_link, after) ==
    Browser(UrlCatalog, cart_link,
            CartView(TRUE, <<<<>>, <<TagAloe, <<"1", "5", "0">>>>,
                             <<TagAlmond, <<"2", "0", "0">>>>>>),
            after)

\* Input elements of the payment frame: for each field elements that its
\* class locator, its fallbacks or the selectors of fill_payment_form
\* match, and an input that none matches.
ElementPool ==
    {Input(<<>>, <<>>, <<"e", "m", "a", "i", "l">>,
           <<>>, <<>>),
     Input(<<"e", "m", "a", "i", "l">>, <<>>, <<"t", "e", "x", "t">>,
           <<>>, <<>>),
     Input(<<>>, <<"e", "m", "a", "i", "l">>, <<>>,
           <<>>, <<>>),
     Input(<<"c", "a", "r", "d", "n", "u", "m", "b", "e", "r">>, <<>>, <<>>,
           <<>>, <<>>),
     Input(<<>>, <<>>, <<>>,
           <<"c", "a", "r", "t", "e">>, <<>>),
     Input(<<>>, <<>>, <<>>,
           <<"c", "a", "r", "d">>, <<>>),
     Input(<<"e", "x", "p", "-", "d", "a", "t", "e">>, <<>>, <<>>,
           <<>>, <<>>),
     Input(<<>>, <<>>, <<>>,
           <<"M", "M", " ", "/", " ", "Y", "Y">>, <<>>),
     Input(<<>>, <<>>, <<>>,
           <<>>, <<"E", "x", "p", "i", "r", "a", "t", "i", "o", "n">>),
     Input(<<"c", "v", "c">>, <<>>, <<>>,
           <<>>, <<>>),
     Input(<<>>, <<>>, <<>>,
           <<"C", "V", "C">>, <<>>),
     Input(<<"p", "o", "s", "t", "a", "l">>, <<>>, <<>>,
           <<>>, <<>>),
     Input(<<>>, <<>>, <<>>,
           <<"z", "i", "p">>, <<>>),
     Input(<<>>, <<>>, <<"t", "e", "x", "t">>,
           <<>>, <<>>)}

FramePages == SeqsUpTo(ElementPool, MaxInputs)

FrameLists == SeqsUpTo(FrameKinds, MaxFrames)

\* Arguments of fill_payment_form.  Card numbers: the default, one with
\* spaces, lengths around the chunk size, the empty one.  Expiries: the
\* default, with a slash, with spaces, a four-digit year, short ones.
ArgEmail == <<"t", "@", "e">>
ArgCvc == <<"1", "2", "3">>
ArgZip == <<"1", "2", "3", "4", "5">>

CardArgs ==
    {<<"4", "2", "4", "2", "4", "2", "4", "2", "4", "2", "4", "2", "4", "2",
       "4", "2">>,
     <<"4", "2", "4", "2", " ", "4", "2", "4", "3", " ", "4", "2", "4", "4",
       " ", "4", "2", "4", "5">>,
     <<"1", "2", "3", "4", "5", "6">>,
     <<"1", "2", "3", "4", "5">>,
     <<"1", "2", "3", "4">>,
     <<"1", "2", " ", "3">>,
     <<>>}

ExpArgs ==
    {<<"1", "2", "3", "4">>,
     <<"1", "2", "/", "3", "4">>,
     <<"1", "2", " ", "/", " ", "3", "4">>,
     <<"1", "2", "/", "2", "0", "3", "4">>,
     <<"1", "2", "3">>,
     <<"1", "2">>,
     <<>>}

\* Cards for the selection of a pair: a name that holds both moisturizer
\* ingredients, so that the cheapest is a choice on either side, and a price
\* of four digits.
PairCardPool ==
    {Card(<<TagAloe, <<"P", "r", "i", "c", "e", ":", " ", "1", "5", "0">>>>,
          TRUE),
     Card(<<TagAlmond,
            <<"P", "r", "i", "c", "e", ":", " ", "1", ",", "2", "0", "0">>>>,
          TRUE),
     Card(<<TagAloe \o <<" ">> \o TagAlmond,
            <<"P", "r", "i", "c", "e", ":", " ", "9", "0">>>>,
          TRUE),
     Card(<<TagSPF30, <<"P", "r", "i", "c", "e", ":", " ", "9", "0">>>>,
          TRUE),
     Card(<<TagSPF50,
            <<"P", "r", "i", "c", "e", ":", " ", "1", ",", "2", "0", "0">>>>,
          TRUE)}

PairCatalogs == SeqsUpTo(PairCardPool, MaxProducts)

CategoryPool == {CategoryMoisturizers, CategorySunscreens, "lotions"}

DigitChar(d) ==
    CASE d = 0 -> "0" [] d = 1 -> "1" [] d = 2 -> "2" [] d = 3 -> "3"
      [] d = 4 -> "4" [] d = 5 -> "5" [] d = 6 -> "6" [] d = 7 -> "7"
      [] d = 8 -> "8" [] d = 9 -> "9"

RECURSIVE IntToStr(_)
\* The decimal digits of a natural number.
IntToStr(n) ==
    IF n < 10 THEN <<DigitChar(n)>>
    ELSE IntToStr(n \div 10) \o <<DigitChar(n % 10)>>

\* The ways the cart page writes a price in a cell: the bare number, or the
\* number with the currency and a thousands separator.
PriceFormats == {"plain", "grouped"}

PriceCell(n, fmt) ==
    LET ds == IntToStr(n)
    IN  IF fmt = "plain" THEN ds
        ELSE <<"R", "s", ".", " ">>
                 \o (IF Len(ds) > 3
                     THEN SubSeq(ds, 1, Len(ds) - 3) \o <<",">>
                              \o SubSeq(ds, Len(ds) - 2, Len(ds))
                     ELSE ds)

\* The cart page that shows exactly the given products: a header row of th
\* cells, then one row of name and price per product.
CartOf(products, fmt) ==
    CartView(TRUE,
             <<<<>>>> \o [k \in 1..Len(products) |->
                             <<products[k].name,
                               PriceCell(products[k].price, fmt)>>])

CartViews ==
    {CartView(TRUE, rows) : rows \in SeqsUpTo(RowPool, MaxRows)}
        \cup {CartView(FALSE, <<>>)}

\* Browsers for a read of the cart.
CartBrowsers ==
    {Browser(u, TRUE, v, v) : u \in {UrlCart, UrlCartCapitals}, v \in CartViews}
        \cup {AtCatalogPage(l, v) : l \in BOOLEAN, v \in CartViews}

(***************************************************************************)
(* SpecPages: one page-object call per step.                               *)
(***************************************************************************)
Idle == [op |-> "idle"]

\* should_buy_moisturizers, should_buy_sunscreens and is_moderate_temperature
\* on one display
PgTemperatureTests ==
    /\ call = Idle
    /\ \E d \in TempDisplays :
          /\ GetCurrentTemperature(d).exc = "none"
          /\ call' = [op |-> "temperature_tests", display |-> d,
                      t |-> GetCurrentTemperature(d).value,
                      moisturizers |->
                          ShouldBuyMoisturizers(GetCurrentTemperature(d).value),
                      sunscreens |->
                          ShouldBuySunscreens(GetCurrentTemperature(d).value),
                      moderate |->
                          IsModerateTemperature(GetCurrentTemperature(d).value)]
    /\ UNCHANGED flowVars

PgNavigateToAppropriateCategory ==
    /\ call = Idle
    /\ \E d1 \in TempDisplays, d2 \in TempDisplays, clickable \in BOOLEAN :
          call' = [op |-> "navigate_to_appropriate_category",
                   d1 |-> d1, d2 |-> d2,
                   ret |-> NavigateToAppropriateCategory(d1, d2, clickable)]
    /\ UNCHANGED flowVars

PgFilterProductsByIngredient ==
    /\ call = Idle
    /\ \E products \in NamedLists, ingredient \in TagPool :
          call' = [op |-> "filter_products_by_ingredient",
                   products |-> products, ingredient |-> ingredient,
                   ret |-> FilterProductsByIngredient(products, ingredient)]
    /\ UNCHANGED flowVars

PgFindCheapestProduct ==
    /\ call = Idle
    /\ \E products \in PricedLists :
          call' = [op |-> "find_cheapest_product", products |-> products,
                   ret |-> FindCheapestProduct(products)]
    /\ UNCHANGED flowVars

PgSelectMoisturizerProducts ==
    /\ call = Idle
    /\ \E cards \in Catalogs :
          call' = [op |-> "select_moisturizer_products", cards |-> cards,
                   ret |-> SelectMoisturizerProducts(cards)]
    /\ UNCHANGED flowVars

PgSelectSunscreenProducts ==
    /\ call = Idle
    /\ \E cards \in Catalogs :
          call' = [op |-> "select_sunscreen_products", cards |-> cards,
                   ret |-> SelectSunscreenProducts(cards)]
    /\ UNCHANGED flowVars

PgGetAllProducts ==
    /\ call = Idle
    /\ \E cards \in ScanCatalogs :
          call' = [op |-> "get_all_products", cards |-> cards,
                   ret |-> GetAllProducts(cards)]
    /\ UNCHANGED flowVars

PgAddProductToCart ==
    /\ call = Idle
    /\ \E cards \in ScanCatalogs, o \in AddProductOutcomes :
          \E product \in {None} \cup
                  {GetAllProducts(cards).products[k] :
                      k \in 1..Len(GetAllProducts(cards).products)} :
             call' = [op |-> "add_product_to_cart", product |-> product,
                      o |-> o, ret |-> AddProductToCart(product, o)]
    /\ UNCHANGED flowVars

\* add_selected_products_to_cart, and next to its result the total that
\* calculate_expected_total reads from the cart page showing the two
\* products.
PgAddSelectedProductsToCart ==
    /\ call = Idle
    /\ \E cards \in PairCatalogs, product_category \in CategoryPool,
          o1 \in AddProductOutcomes, o2 \in AddProductOutcomes,
          fmt \in PriceFormats :
          LET ret == AddSelectedProductsToCart(cards, product_category,
                                               o1, o2)
          IN  call' = [op |-> "add_selected_products_to_cart",
                       cards |-> cards, category |-> product_category,
                       o1 |-> o1, o2 |-> o2, ret |-> ret,
                       cart |-> IF ret.exc = "none"
                                THEN AtCartPage(CartOf(ret.pair, fmt))
                                ELSE AtCartPage(CartView(FALSE, <<>>)),
                       expected |-> IF ret.exc = "none"
                                    THEN CalculateExpectedTotal(
                                             AtCartPage(CartOf(ret.pair, fmt))
                                         ).total
                                    ELSE 0]
    /\ UNCHANGED flowVars

PgGetCartItems ==
    /\ call = Idle
    /\ \E b \in CartBrowsers :
          call' = [op |-> "get_cart_items", browser |-> b,
                   ret |-> GetCartItems(b).items,
                   navigated |-> GetCartItems(b).navigated,
                   total |-> CalculateExpectedTotal(b).total]
    /\ UNCHANGED flowVars

PgFillPaymentForm ==
    /\ call = Idle
    /\ \E o \in FillOutcomes, card \in CardArgs, exp \in ExpArgs :
          call' = [op |-> "fill_payment_form", o |-> o,
                   card |-> card, exp |-> exp,
                   ret |-> FillPaymentForm(o),
                   writes |-> FillPaymentFormWrites(o, ArgEmail, card, exp,
                                                    ArgCvc, ArgZip)]
    /\ UNCHANGED flowVars

\* fill_email_field, ..., fill_zip_field on a frame
PgFillFieldMethod ==
    /\ call = Idle
    /\ \E field \in FieldNames, page \in FramePages :
          call' = [op |-> "fill_field", by |-> "method", field |-> field,
                   page |-> page, ret |-> FillFieldMethod(field, page)]
    /\ UNCHANGED flowVars

\* the resolution of one field in fill_payment_form
PgFormField ==
    /\ call = Idle
    /\ \E field \in FieldNames, page \in FramePages :
          call' = [op |-> "fill_field", by |-> "form", field |-> field,
                   page |-> page, ret |-> FormField(field, page)]
    /\ UNCHANGED flowVars

PgSwitchToStripeIframeIfNeeded ==
    /\ call = Idle
    /\ \E frames \in FrameLists, listed \in BOOLEAN :
          call' = [op |-> "switch_to_stripe_iframe_if_needed",
                   frames |-> frames, listed |-> listed,
                   ret |-> SwitchToStripeIframeIfNeeded(frames, listed)]
    /\ UNCHANGED flowVars

PgSubmitPaymentForm ==
    /\ call = Idle
    /\ \E o \in SubmitFormOutcomes, c \in {"top", "frame"} :
          call' = [op |-> "submit_payment_form", o |-> o, from |-> c,
                   ret |-> SubmitPaymentForm(o),
                   ctx |-> ContextAfter(c, SubmitPaymentForm(o).events)]
    /\ UNCHANGED flowVars

PgSubmitPayment ==
    /\ call = Idle
    /\ \E o \in SubmitOutcomes :
          call' = [op |-> "submit_payment", o |-> o,
                   ret |-> SubmitPayment(o)]
    /\ UNCHANGED flowVars

\* The caller takes the result; the page object keeps no state of its own.
PgReturn ==
    /\ call # Idle
    /\ call' = Idle
    /\ UNCHANGED flowVars

FlowInit ==
    /\ pc = "open_homepage"
    /\ outcome = "running"
    /\ failure = ""
    /\ temperature = 0
    /\ category = ""
    /\ all_products = <<>>
    /\ first = None
    /\ second = None
    /\ navEpoch = 0
    /\ catalogEpoch = 0
    /\ addClicks = <<>>
    /\ attempt = 0
    /\ initial_items = <<>>
    /\ current_items = <<>>
    /\ cart_items = <<>>
    /\ expected_total = 0
    /\ displayed_total = 0
    /\ report = <<>>
    /\ payLog = <<>>
    /\ ctx = "top"

Init == call = Idle /\ FlowInit

NextPages ==
    \/ PgTemperatureTests
    \/ PgNavigateToAppropriateCategory
    \/ PgFilterProductsByIngredient
    \/ PgFindCheapestProduct
    \/ PgSelectMoisturizerProducts
    \/ PgSelectSunscreenProducts
    \/ PgGetAllProducts
    \/ PgAddProductToCart
    \/ PgAddSelectedProductsToCart
    \/ PgGetCartItems
    \/ PgFillPaymentForm
    \/ PgFillFieldMethod
    \/ PgFormField
    \/ PgSwitchToStripeIframeIfNeeded
    \/ PgSubmitPaymentForm
    \/ PgSubmitPayment
    \/ PgReturn

SpecPages == Init /\ [][NextPages]_vars

(***************************************************************************)
(* Claims on the page objects (checked under SpecPages).                   *)
(***************************************************************************)
AllEqual(q, t) == \A i \in 1..Len(q) : q[i] = t

\* C1: for every reading t the three temperature tests answer t < 19,
\* t > 34 and 19 <= t <= 34, exactly one of them holds, and
\* navigate_to_appropriate_category, all of whose readings are t, returns
\* moisturizers iff t < 19, sunscreens iff t > 34 and none iff 19 <= t <= 34.
C1_Routing ==
    /\ call.op = "temperature_tests" =>
          /\ call.moisturizers <=> call.t < 19
          /\ call.sunscreens <=> call.t > 34
          /\ call.moderate <=> (19 <= call.t /\ call.t <= 34)
          /\ Cardinality({b \in {"m", "s", "n"} :
                 \/ b = "m" /\ call.moisturizers
                 \/ b = "s" /\ call.sunscreens
                 \/ b = "n" /\ call.moderate}) = 1
    /\ call.op = "navigate_to_appropriate_category" /\ call.ret.exc = "none" =>
          \A t \in 0..49 :
              AllEqual(call.ret.readings, t) =>
                  /\ call.ret.label = "moisturizers" <=> t < 19
                  /\ call.ret.label = "sunscreens" <=> t > 34
                  /\ call.ret.label = "none" <=> (19 <= t /\ t <= 34)

\* C1 witness: both readings are 34 and the method returns 'none'.
C1_Witness ==
    /\ call.op = "navigate_to_appropriate_category"
    /\ call.ret.exc = "none"
    /\ call.ret.readings = <<34, 34>>
    /\ call.ret.label = "none"

\* C4: find_cheapest_product returns None for the empty list, and otherwise
\* an entry whose price no entry undercuts and which no earlier entry
\* equals in price.
C4_Cheapest ==
    call.op = "find_cheapest_product" =>
        IF call.products = <<>> THEN call.ret = None
        ELSE \E i \in 1..Len(call.products) :
                /\ call.ret = call.products[i]
                /\ \A j \in 1..Len(call.products) :
                       call.products[j].price >= call.ret.price
                /\ \A j \in 1..(i - 1) :
                       call.products[j].price > call.ret.price

\* C4 witness: prices 300, 150, 150 and the second entry is returned.
C4_Witness ==
    /\ call.op = "find_cheapest_product"
    /\ Len(call.products) = 3
    /\ call.products[1].price = 300
    /\ call.products[2].price = 150
    /\ call.products[3].price = 150
    /\ call.ret.card = 2

\* A name carries SPF number n as a complete number: 'SPF-<n>' or 'SPF <n>'
\* not followed by a further digit.
HasSpfNumber(name, n) ==
    \E i \in 1..Len(name) :
        /\ i + 3 + Len(n) <= Len(name)
        /\ SubSeq(name, i, i + 2) = TextSPF
        /\ name[i + 3] \in {"-", " "}
        /\ SubSeq(name, i + 4, i + 3 + Len(n)) = n
        /\ (i + 4 + Len(n) <= Len(name) => name[i + 4 + Len(n)] \notin Digits)

\* r is a cheapest product of the list among those whose name satisfies M,
\* or None when there is none.
IsCheapestMatch(r, products, M(_)) ==
    IF \A i \in 1..Len(products) : ~M(products[i].name) THEN r = None
    ELSE \E i \in 1..Len(products) :
            /\ r = products[i]
            /\ M(r.name)
            /\ \A j \in 1..Len(products) :
                   M(products[j].name) => products[j].price >= r.price

IsAloe(name) == Contains(Lower(name), <<"a", "l", "o", "e">>)

IsAlmond(name) == Contains(Lower(name), <<"a", "l", "m", "o", "n", "d">>)

IsSpf30(name) == HasSpfNumber(name, <<"3", "0">>)

IsSpf50(name) == HasSpfNumber(name, <<"5", "0">>)

\* C5: the moisturizer pair is (cheapest Aloe match, cheapest Almond match)
\* and the sunscreen pair is (cheapest SPF-30 match, cheapest SPF-50 match),
\* each over the whole catalog read from the page.
C5_SelectedPair ==
    /\ call.op = "select_moisturizer_products" /\ call.ret.exc = "none" =>
          /\ IsCheapestMatch(call.ret.pair[1],
                             GetAllProducts(call.cards).products, IsAloe)
          /\ IsCheapestMatch(call.ret.pair[2],
                             GetAllProducts(call.cards).products, IsAlmond)
    /\ call.op = "select_sunscreen_products" /\ call.ret.exc = "none" =>
          /\ IsCheapestMatch(call.ret.pair[1],
                             GetAllProducts(call.cards).products, IsSpf30)
          /\ IsCheapestMatch(call.ret.pair[2],
                             GetAllProducts(call.cards).products, IsSpf50)

\* C6: with tag 'SPF-30' the filter returns no product whose name lacks
\* SPF-30 as a complete number (a name with only 'SPF-300' is not returned).
C6_NoPrefixMatch ==
    call.op = "filter_products_by_ingredient" /\ call.ingredient = TagSPF30 =>
        \A i \in 1..Len(call.ret.products) :
            HasSpfNumber(call.ret.products[i].name, <<"3", "0">>)

\* A tag of the shape SPF-<n>, n a number.
IsSpfTag(tag) ==
    /\ Len(tag) > 4
    /\ SubSeq(tag, 1, 4) = <<"S", "P", "F", "-">>
    /\ \A i \in 5..Len(tag) : tag[i] \in Digits

\* The predicate a tag stands for.
TagPredicate(name, tag) ==
    IF IsSpfTag(tag)
    THEN \/ Contains(name, tag)
         \/ Contains(name, <<"S", "P", "F", " ">> \o SubSeq(tag, 5, Len(tag)))
    ELSE Contains(Lower(name), Lower(tag))

\* C7: the filter returns exactly the products whose name satisfies the
\* tag's predicate, in catalog order.
C7_FilterExact ==
    call.op = "filter_products_by_ingredient" =>
        /\ call.ret.exc = "none"
        /\ call.ret.products =
               SelectSeq(call.products,
                         LAMBDA p : TagPredicate(p.name, call.ingredient))

\* Rows of a view that make a cart line: two cells or more and a digit in
\* the price cell.
LineRows(view) ==
    {i \in 1..Len(view.rows) :
        /\ Len(view.rows[i]) >= 2
        /\ \E k \in 1..Len(view.rows[i][2]) : view.rows[i][2][k] \in Digits}

RECURSIVE SumOver(_, _)
SumOver(S, f) ==
    IF S = {} THEN 0
    ELSE LET x == CHOOSE y \in S : TRUE IN f[x] + SumOver(S \ {x}, f)

\* The page whose rows a read of the cart parses: the page shown, or the
\* page the click on #cart leads to.
PageRead(b) ==
    IF UrlHasCart(b.url) \/ ~b.cart_link THEN b.view ELSE b.after

\* Whether the read gets as far as the rows.
RowsRead(b) == (UrlHasCart(b.url) \/ b.cart_link) /\ PageRead(b).table

\* C10: every line get_cart_items returns keeps the name and price text of
\* a row with two cells or more and a digit in its price cell, it returns
\* one line per such row when it gets to read the rows, and
\* calculate_expected_total is the sum over the returned rows alone.
C10_MalformedRowsExcluded ==
    call.op = "get_cart_items" =>
        LET view == PageRead(call.browser)
            lines == IF RowsRead(call.browser) THEN LineRows(view) ELSE {}
        IN  /\ Len(call.ret) = Cardinality(lines)
            /\ \A k \in 1..Len(call.ret) :
                   \E i \in lines :
                       /\ call.ret[k].name = view.rows[i][1]
                       /\ call.ret[k].price_text = view.rows[i][2]
            /\ call.total =
                   SumOver(lines,
                           [i \in lines |->
                               StrToInt(FirstDigitRun(
                                   RemoveChar(view.rows[i][2], ",")))])

\* C10 witness: a read of a header row without a digit and one product row
\* yields one line.
C10_Witness ==
    /\ call.op = "get_cart_items"
    /\ UrlHasCart(call.browser.url)
    /\ Len(call.browser.view.rows) = 2
    /\ call.browser.view.rows[1] = <<<<"I", "t", "e", "m">>, TextPrice>>
    /\ call.browser.view.rows[2] = <<TagAloe, <<"1", "5", "0">>>>
    /\ Len(call.ret) = 1
    /\ call.total = 150

\* C11: on one cart page, calculate_expected_total is the sum of the prices
\* of the lines get_cart_items returns, and 0 when it returns no line.
C11_ExpectedTotalIsSum ==
    call.op = "get_cart_items" =>
        /\ call.total =
               SumOver(1..Len(call.ret),
                       [k \in 1..Len(call.ret) |-> call.ret[k].price])
        /\ call.ret = <<>> => call.total = 0

\* C11 witness: two lines priced 150 and 350 and a header row; the expected
\* total is 500.
C11_Witness ==
    /\ call.op = "get_cart_items"
    /\ call.navigated
    /\ Len(call.browser.after.rows) = 3
    /\ Len(call.ret) = 2
    /\ call.ret[1].price = 150
    /\ call.ret[2].price = 350
    /\ call.total = 500

\* C14: however submit_payment_form ends, by returning or by raising, and
\* whichever context it was called in, the browser context afterwards is
\* the top-level page.
C14_SubmitFormRestoresContext ==
    call.op = "submit_payment_form" => call.ctx = "top"

\* C14 witness: the frame was entered, no submit control was found, the
\* method raised, and the context is the top-level page.
C14_Witness ==
    /\ call.op = "submit_payment_form"
    /\ call.o = "no_button"
    /\ call.ret.raised
    /\ call.ret.events[1] = "enter_frame"
    /\ call.ctx = "top"

\* C15: however fill_payment_form ends, by returning or by raising, the
\* browser context afterwards is the top-level page.
C15_FillFormRestoresContext ==
    call.op = "fill_payment_form" => call.ret.ctx = "top"

\* A card has a paragraph and a paragraph with "Price".
HasLabels(card) ==
    /\ card.ps # <<>>
    /\ \E k \in 1..Len(card.ps) : Contains(card.ps[k], TextPrice)

\* The price label of a card that has one.
PriceLabel(card) ==
    card.ps[CHOOSE k \in 1..Len(card.ps) :
                /\ Contains(card.ps[k], TextPrice)
                /\ \A j \in 1..(k - 1) : ~Contains(card.ps[j], TextPrice)]

HasPriceDigit(card) ==
    \E i \in 1..Len(PriceLabel(card)) : PriceLabel(card)[i] \in Digits

\* C26: the price of every product get_all_products returns is the value of
\* the first run of digits of its card's price label, and no product comes
\* from a card whose price label has no digit.
C26_PriceIsFirstDigitRun ==
    call.op = "get_all_products" =>
        \A k \in 1..Len(call.ret.products) :
            LET card == call.cards[call.ret.products[k].card]
            IN  /\ HasLabels(card)
                /\ HasPriceDigit(card)
                /\ call.ret.products[k].price =
                       StrToInt(FirstDigitRun(PriceLabel(card)))

\* The cards of `cards`, in order, that satisfy Keep: their indices.
KeptIndices(cards, Keep(_)) ==
    SelectSeq([i \in 1..Len(cards) |-> i], LAMBDA i : Keep(cards[i]))

\* get_all_products on a page with cards returned, without raising, one
\* product per card that satisfies Keep, in card order, named by the first
\* paragraph of its card.
ReturnsCards(Keep(_)) ==
    /\ call.ret.exc = "none"
    /\ LET kept == KeptIndices(call.cards, Keep)
       IN  /\ Len(call.ret.products) = Len(kept)
           /\ \A k \in 1..Len(kept) :
                 /\ call.ret.products[k].card = kept[k]
                 /\ call.ret.products[k].name = call.cards[kept[k]].ps[1]

\* C27 as stated: one product per card that has a paragraph and a price
\* label.
C27_CardsWithLabels ==
    call.op = "get_all_products" /\ call.cards # <<>> =>
        ReturnsCards(HasLabels)

\* The price label of a card reads as an integer: it has a character
\* str.isdigit accepts, and every such character is a decimal digit.
PriceReadsAsInteger(card) ==
    /\ \E i \in 1..Len(PriceLabel(card)) : IsDigitPy(PriceLabel(card)[i])
    /\ \A i \in 1..Len(PriceLabel(card)) :
          IsDigitPy(PriceLabel(card)[i]) => PriceLabel(card)[i] \in Digits

IsProductCard(card) ==
    /\ HasLabels(card)
    /\ PriceReadsAsInteger(card)
    /\ card.button

\* C27: get_all_products returns, without raising, one product per card
\* that has a paragraph, a price label whose digit characters read as an
\* integer (at least one, all of them decimal digits) and an add button, in
\* card order; every other card is passed over and the cards after it are
\* still read.
C27_ProductCardsReturned ==
    call.op = "get_all_products" /\ call.cards # <<>> =>
        ReturnsCards(IsProductCard)

\* C27 witness: a card without paragraph, a product card and a card whose
\* price label mixes decimal digits with a digit character that is not
\* decimal; the product card is returned.
C27_Witness ==
    /\ call.op = "get_all_products"
    /\ Len(call.cards) = 3
    /\ call.cards[1].ps = <<>>
    /\ IsProductCard(call.cards[2])
    /\ HasLabels(call.cards[3]) /\ HasPriceDigit(call.cards[3])
    /\ ~PriceReadsAsInteger(call.cards[3])
    /\ call.cards[3].button
    /\ call.ret.exc = "none"
    /\ Len(call.ret.products) = 1
    /\ call.ret.products[1].card = 2

\* C28: add_product_to_cart on a product with a button that is clicked
\* returns normally with exactly one click, whether or not the cart
\* indicator changes from 'Empty'; and it never returns normally without
\* exactly one click.
C28_AddOnceDespiteIndicator ==
    call.op = "add_product_to_cart" =>
        /\ (call.product # None
               /\ call.o \in {"indicator_changed", "indicator_unchanged"})
              => call.ret.exc = "none" /\ call.ret.clicks = 1
        /\ call.ret.exc = "none" => call.ret.clicks = 1
        /\ call.ret.clicks <= 1

C28_Witness ==
    /\ call.op = "add_product_to_cart"
    /\ call.product # None
    /\ call.o = "indicator_unchanged"
    /\ call.ret.exc = "none"
    /\ call.ret.clicks = 1
    /\ call.ret.warned

\* C29: when add_selected_products_to_cart returns, its total_price is the
\* sum of the two catalog prices and is what calculate_expected_total gives
\* for the cart that shows exactly the two selected products.
C29_TotalPriceIsExpectedTotal ==
    (call.op = "add_selected_products_to_cart" /\ call.ret.exc = "none") =>
        /\ call.ret.total_price
              = call.ret.pair[1].price + call.ret.pair[2].price
        /\ Len(GetCartItems(call.cart).items) = 2
        /\ call.expected = call.ret.total_price

C29_Witness ==
    /\ call.op = "add_selected_products_to_cart"
    /\ call.ret.exc = "none"
    /\ call.ret.pair[1].price # call.ret.pair[2].price
    /\ call.ret.pair[2].price >= 1000
    /\ UrlHasCart(call.cart.url)
    /\ Contains(call.cart.view.rows[3][2], <<",">>)
    /\ call.expected = call.ret.total_price

PaymentFields == {"email", "card", "expiry", "cvc", "zip"}

\* C30: when the payment frame or its form is not available, fill_payment_form
\* raises, no field has been written, and the browser is on the top-level
\* page.
C30_NoFrameNoFieldWritten ==
    (call.op = "fill_payment_form"
        /\ call.o \in {"frame_not_found", "form_not_loaded", "frame_timeout"})
        =>
        /\ call.ret.raised
        /\ \A k \in 1..Len(call.ret.events) :
              call.ret.events[k] \notin PaymentFields
        /\ call.ret.ctx = "top"

C30_Witness ==
    /\ call.op = "fill_payment_form"
    /\ call.o = "form_not_loaded"
    /\ call.ret.raised
    /\ call.ret.events = <<"enter_frame", "default_content">>
    /\ call.ret.ctx = "top"

\* The keys sent to one field by the call, in order.
KeysTo(field) ==
    LET w == SelectSeq(call.writes, LAMBDA x : x.field = field)
    IN  [k \in 1..Len(w) |-> w[k].keys]

RECURSIVE Concat(_)
Concat(q) == IF q = <<>> THEN <<>> ELSE Head(q) \o Concat(Tail(q))

\* Positions of the log of writes at which a field is written.
WritePositions(field) ==
    {k \in 1..Len(call.writes) : call.writes[k].field = field}

\* C31: the card number is written in chunks of one to four characters,
\* in more than one chunk when it is longer than four characters, and the
\* chunks put together are the card number without its spaces.
C31_CardInChunks ==
    (call.op = "fill_payment_form" /\ WritePositions("card") # {}) =>
        /\ \A k \in 1..Len(KeysTo("card")) :
              Len(KeysTo("card")[k]) >= 1 /\ Len(KeysTo("card")[k]) <= 4
        /\ Len(RemoveChar(call.card, " ")) > 4 => Len(KeysTo("card")) > 1
        /\ Concat(KeysTo("card")) = RemoveChar(call.card, " ")
        /\ \A i \in WritePositions("card"), j \in WritePositions("card") :
              i < j => \A k \in i..j : call.writes[k].field = "card"

\* C31 witness: a card number of nineteen characters with spaces has been
\* written in four chunks.
C31_Witness ==
    /\ call.op = "fill_payment_form"
    /\ Len(call.card) = 19
    /\ Len(KeysTo("card")) = 4
    /\ KeysTo("card")[2] = <<"4", "2", "4", "3">>

\* C32: the expiry is written as two sub-writes and a tab key, all before
\* the first write to the CVC field; put together the two sub-writes are
\* the first four characters of the expiry without '/' and spaces, and for
\* an expiry of four such characters they are its first two and its last
\* two.
C32_ExpiryInTwoWrites ==
    (call.op = "fill_payment_form" /\ WritePositions("expiry") # {}) =>
        LET w == KeysTo("expiry")
            stripped == RemoveChar(RemoveChar(call.exp, "/"), " ")
        IN  /\ Len(w) = 3
            /\ w[3] = KeyTab
            /\ w[1] \o w[2] = SubSeq(stripped, 1,
                                     IF Len(stripped) < 4 THEN Len(stripped)
                                     ELSE 4)
            /\ Len(w[1]) <= 2
            /\ Len(stripped) >= 4 =>
                  /\ w[1] = SubSeq(stripped, 1, 2)
                  /\ w[2] = SubSeq(stripped, 3, 4)
            /\ \A i \in WritePositions("expiry"), j \in WritePositions("cvc") :
                  i < j

\* C32 witness: the expiry '12 / 34' and the CVC have been written.
C32_Witness ==
    /\ call.op = "fill_payment_form"
    /\ Len(call.exp) = 7
    /\ Contains(call.exp, <<" ", "/", " ">>)
    /\ KeysTo("expiry") = <<<<"1", "2">>, <<"3", "4">>, KeyTab>>
    /\ WritePositions("cvc") # {}

\* C33: a missing postal code field is no error: fill_payment_form ends
\* normally with the four other fields written and the frame left, and a
\* fill of the postal code that finds no element ends normally with
\* nothing written.
C33_PostalCodeOptional ==
    /\ (call.op = "fill_payment_form" /\ call.o = "filled_without_zip") =>
          /\ ~call.ret.raised
          /\ \A f \in {"email", "card", "expiry", "cvc"} :
                \E k \in 1..Len(call.ret.events) : call.ret.events[k] = f
          /\ \A k \in 1..Len(call.ret.events) : call.ret.events[k] # "zip"
          /\ call.ret.events[Len(call.ret.events)] = "default_content"
          /\ call.ret.ctx = "top"
    /\ (call.op = "fill_field" /\ call.field = "zip"
           /\ FirstMatch(call.page, "zip", Range(call.ret.alternatives)) = 0)
          =>
          ~call.ret.raised /\ call.ret.target = 0

C33_Witness ==
    /\ call.op = "fill_payment_form"
    /\ call.o = "filled_without_zip"
    /\ ~call.ret.raised
    /\ WritePositions("cvc") # {}
    /\ WritePositions("zip") = {}
    /\ call.ret.ctx = "top"

\* The element the first alternative with a match yields.
RECURSIVE FirstByAlternatives(_, _, _)
FirstByAlternatives(page, field, alternatives) ==
    IF alternatives = <<>> THEN 0
    ELSE IF FirstMatch(page, field, {Head(alternatives)}) # 0
    THEN FirstMatch(page, field, {Head(alternatives)})
    ELSE FirstByAlternatives(page, field, Tail(alternatives))

\* C34: every field is looked for through a primary and at least one
\* fallback locator, the value goes to the element of the first of them
\* that finds one, and for a required field the call raises without a
\* write when none does.
C34_FallbackResolution ==
    call.op = "fill_field" =>
        /\ Len(call.ret.alternatives) >= 2
        /\ call.ret.target
              = FirstByAlternatives(call.page, call.field,
                                    call.ret.alternatives)
        /\ (call.field # "zip"
               /\ FirstByAlternatives(call.page, call.field,
                                      call.ret.alternatives) = 0)
              => call.ret.raised

\* C35: the time a field's resolution waits, over all its alternatives, is
\* at most one timeout.
C35_SharedDeadline ==
    call.op = "fill_field" => call.ret.waited <= IsElementPresentTimeout

\* A frame that can be entered and shows the email or the card number field.
Exposes(kind) == kind \in {"email", "card", "both"}

\* C36: switch_to_stripe_iframe_if_needed returns True exactly when the
\* frames were listed and one of them exposes a payment field; the context
\* is then inside the first such frame, and it is the top-level page when
\* the method returns False.
C36_FirstPaymentFrame ==
    call.op = "switch_to_stripe_iframe_if_needed" =>
        /\ call.ret.ret <=>
              (call.listed
                  /\ \E i \in 1..Len(call.frames) : Exposes(call.frames[i]))
        /\ call.ret.ret =>
              /\ call.ret.ctx = "frame"
              /\ Exposes(call.frames[call.ret.frame])
              /\ \A j \in 1..(call.ret.frame - 1) : ~Exposes(call.frames[j])
              /\ call.ret.events[Len(call.ret.events)] = "enter_frame"
        /\ ~call.ret.ret => call.ret.ctx = "top" /\ call.ret.frame = 0

\* C36 witness: a frame without field and a frame that cannot be entered
\* were passed over and the third frame was entered.
C36_Witness ==
    /\ call.op = "switch_to_stripe_iframe_if_needed"
    /\ call.frames = <<"other", "unenterable", "card">>
    /\ call.ret.ret
    /\ call.ret.frame = 3
    /\ call.ret.ctx = "frame"

\* The routing decision of one reading t.
RouteOf(t) ==
    IF ShouldBuyMoisturizers(t) THEN "moisturizers"
    ELSE IF ShouldBuySunscreens(t) THEN "sunscreens"
    ELSE "none"

\* C37: the category returned by navigate_to_appropriate_category, and the
\* button it clicked, is the routing decision of one of the readings the
\* method took, also when the display changed between its readings.
C37_CategoryOfOneReading ==
    (call.op = "navigate_to_appropriate_category" /\ call.ret.exc = "none") =>
        \E k \in 1..Len(call.ret.readings) :
            /\ call.ret.label = RouteOf(call.ret.readings[k])
            /\ call.ret.clicked
                  = (IF RouteOf(call.ret.readings[k]) = "none" THEN ""
                     ELSE RouteOf(call.ret.readings[k]))

\* The pair that add_selected_products_to_cart selects on the catalog of the
\* call.
SelectedFor(c) ==
    IF c.category = CategoryMoisturizers
    THEN SelectMoisturizerProducts(c.cards)
    ELSE SelectSunscreenProducts(c.cards)

\* C38: when the category is unknown or a side of the pair is missing,
\* add_selected_products_to_cart raises and no add button has been clicked.
C38_NoAddWithoutPair ==
    (call.op = "add_selected_products_to_cart"
        /\ \/ call.category \notin {"moisturizers", "sunscreens"}
           \/ SelectedFor(call).pair[1] = None
           \/ SelectedFor(call).pair[2] = None) =>
        /\ call.ret.exc # "none"
        /\ call.ret.clicks = <<>>

\* C38 witness: the Aloe side is found, the Almond side is not, and the call
\* has raised without a click.
C38_Witness ==
    /\ call.op = "add_selected_products_to_cart"
    /\ call.category = "moisturizers"
    /\ SelectedFor(call).exc = "none"
    /\ SelectedFor(call).pair[1] # None
    /\ SelectedFor(call).pair[2] = None
    /\ call.o1 = "indicator_changed"
    /\ call.ret.exc = "Exception"
    /\ call.ret.clicks = <<>>

\* C40: a selected pair whose two sides are not None is made of two
\* different catalog cards, and no card's add button is clicked for both
\* sides.
C40_PairIsTwoProducts ==
    /\ (call.op \in {"select_moisturizer_products",
                     "select_sunscreen_products"}
           /\ call.ret.pair[1] # None /\ call.ret.pair[2] # None)
          => call.ret.pair[1].card # call.ret.pair[2].card
    /\ (call.op = "add_selected_products_to_cart" /\ call.ret.exc = "none")
          => /\ call.ret.pair[1].card # call.ret.pair[2].card
             /\ call.ret.clicks[1] # call.ret.clicks[2]

\* The integer a display text shows, sign included: the first run of digits,
\* negated when a minus sign stands right before it.
RECURSIVE SignedReading(_)
SignedReading(txt) ==
    IF txt = <<>> THEN 0
    ELSE IF Head(txt) = "-" /\ Len(txt) > 1 /\ txt[2] \in Digits
    THEN 0 - StrToInt(DigitPrefix(Tail(txt)))
    ELSE IF Head(txt) \in Digits THEN StrToInt(DigitPrefix(txt))
    ELSE SignedReading(Tail(txt))

\* C39: the temperature read is the integer the display shows, sign
\* included, and a reading shown below zero is routed to moisturizers.
C39_SignedReading ==
    call.op = "temperature_tests" =>
        /\ call.t = SignedReading(call.display.text)
        /\ SignedReading(call.display.text) < 0 =>
              call.moisturizers /\ ~call.sunscreens

(***************************************************************************)
(* Spec: test_weather_shopper_flow (src/tests/test_happy_path.py).         *)
(*                                                                         *)
(* pytest.fail and pytest.skip raise exceptions that derive from           *)
(* BaseException: no `except Exception` of the test catches them, so each  *)
(* ends the test.  An exception no handler catches ends the test as        *)
(* failed too; `failure` then starts with "uncaught".                      *)
(* The locals of a finished step are dropped when the test no longer       *)
(* reads them.                                                             *)
(***************************************************************************)
TestColdBelow == 19
TestHotAbove == 34

\* What the pages show the test.
FlowDisplays ==
    {Display(<<"1", "8">>), Display(<<"1", "9">>), Display(<<"3", "4">>),
     Display(<<"3", "5">>), Display(<<"N", "a", "N">>), NoDisplay}

FlowCardPool ==
    {Card(<<TagAloe, <<"P", "r", "i", "c", "e", ":", " ", "1", "5", "0">>>>, TRUE),
     Card(<<TagAlmond, <<"P", "r", "i", "c", "e", ":", " ", "3", "5", "0">>>>, TRUE),
     Card(<<TagSPF30, <<"P", "r", "i", "c", "e", ":", " ", "1", "5", "0">>>>, TRUE),
     Card(<<TagSPF50, <<"P", "r", "i", "c", "e", ":", " ", "3", "5", "0">>>>, TRUE)}

FlowCatalogs == SeqsUpTo(FlowCardPool, MaxProducts)

FlowRowPool ==
    {<<TagAloe, <<"1", "5", "0">>>>,
     <<TagAlmond, <<"R", "s", ".", " ", "3", "5", "0">>>>,
     <<<<"I", "t", "e", "m">>, TextPrice>>}

FlowCartViews ==
    {CartView(TRUE, rows) : rows \in SeqsUpTo(FlowRowPool, MaxRows)}
        \cup {CartView(FALSE, <<>>)}

FlowTotals ==
    {Display(<<"T", "o", "t", "a", "l", ":", " ", "5", "0", "0">>),
     Display(<<"4", "9", "9">>),
     Display(<<"T", "o", "t", "a", "l">>),
     NoDisplay}

\* What the calls of the test return on these pages.
TemperatureReads == {GetCurrentTemperature(d) : d \in FlowDisplays}

CatalogReads == {GetAllProducts(cards) : cards \in FlowCatalogs}

FlowBrowsers ==
    {AtCartPage(v) : v \in FlowCartViews}
        \cup {AtCatalogPage(l, v) : l \in BOOLEAN, v \in FlowCartViews}

CartReads == {GetCartItems(b) : b \in FlowBrowsers}

ExpectedTotals == {CalculateExpectedTotal(b) : b \in FlowBrowsers}

DisplayedTotals == {GetDisplayedTotal(total) : total \in FlowTotals}

Fail(msg) ==
    /\ outcome' = "failed"
    /\ failure' = msg
    /\ pc' = "done"

\* The first tag of the branch taken ("Aloe" or "SPF-30").
FirstTag == IF category = "moisturizers" THEN TagAloe ELSE TagSPF30

\* The second tag of the branch taken ("Almond" or "SPF-50").
SecondTag == IF category = "moisturizers" THEN TagAlmond ELSE TagSPF50

\* Step 1: driver.get of the homepage; loads tells whether it succeeds.
OpenHomepage ==
    /\ pc = "open_homepage"
    /\ \E loads \in BOOLEAN :
          IF loads
          THEN /\ pc' = "read_temperature"
               /\ navEpoch' = navEpoch + 1
               /\ UNCHANGED <<outcome, failure>>
          ELSE /\ Fail("Failed to load homepage")
               /\ UNCHANGED navEpoch
    /\ UNCHANGED <<call, temperature, category, all_products, first, second,
                   catalogEpoch, addClicks, attempt, initial_items,
                   current_items, cart_items, expected_total,
                   displayed_total, report, payLog, ctx>>

\* Step 2: home.get_current_temperature()
ReadTemperature ==
    /\ pc = "read_temperature"
    /\ \E r \in TemperatureReads :
          IF r.exc = "none"
          THEN /\ temperature' = r.value
               /\ pc' = "route"
               /\ UNCHANGED <<outcome, failure>>
          ELSE /\ Fail("Could not read temperature")
               /\ UNCHANGED temperature
    /\ UNCHANGED <<call, category, all_products, first, second, navEpoch,
                   catalogEpoch, addClicks, attempt, initial_items,
                   current_items, cart_items, expected_total,
                   displayed_total, report, payLog, ctx>>

\* Mutant of TestRoute: the upper bound taken inclusive.
TestRouteHotInclusive(t) ==
    IF t < TestColdBelow THEN "moisturizers"
    ELSE IF t >= TestHotAbove THEN "sunscreens"
    ELSE "none"

\* The branch of Step 3 the test takes on a reading.
TestRoute(t) ==
    IF t < TestColdBelow THEN "moisturizers"
    ELSE IF t > TestHotAbove THEN "sunscreens"
    ELSE "none"

\* Step 3, the branch and the click of the category button.  click_element
\* raises a plain Exception when the button is not clickable, which the
\* handler of Step 3 does not catch.
Route ==
    /\ pc = "route"
    /\ IF TestRoute(temperature) = "none"
       THEN /\ outcome' = "skipped"
            /\ failure' = "Temperature not extreme enough to select products."
            /\ pc' = "done"
            /\ UNCHANGED <<category, navEpoch>>
       ELSE \E clickable \in BOOLEAN :
               IF clickable
               THEN /\ category' = TestRoute(temperature)
                    /\ navEpoch' = navEpoch + 1
                    /\ pc' = "get_all_products"
                    /\ UNCHANGED <<outcome, failure>>
               ELSE /\ Fail("uncaught Exception: Element not clickable")
                    /\ UNCHANGED <<category, navEpoch>>
    /\ UNCHANGED <<call, temperature, all_products, first, second,
                   catalogEpoch, addClicks, attempt, initial_items,
                   current_items, cart_items, expected_total,
                   displayed_total, report, payLog, ctx>>

\* product_page.get_all_products()
ReadCatalog ==
    /\ pc = "get_all_products"
    /\ \E r \in CatalogReads :
          IF r.exc = "none"
          THEN /\ all_products' = r.products
               /\ catalogEpoch' = navEpoch
               /\ pc' = "select_first"
               /\ UNCHANGED <<outcome, failure>>
          ELSE /\ Fail("Error while selecting products")
               /\ UNCHANGED <<all_products, catalogEpoch>>
    /\ UNCHANGED <<call, temperature, category, first, second, navEpoch,
                   addClicks, attempt, initial_items, current_items,
                   cart_items, expected_total, displayed_total, report,
                   payLog, ctx>>

\* Filter and cheapest for the first tag; pytest.fail when there is none.
SelectFirst ==
    /\ pc = "select_first"
    /\ first' = FindCheapestProduct(
                    FilterProductsByIngredient(all_products, FirstTag).products)
    /\ IF first' = None
       THEN Fail("No first product found to add to cart.")
       ELSE /\ pc' = "add_first"
            /\ UNCHANGED <<outcome, failure>>
    /\ UNCHANGED <<call, temperature, category, all_products, second,
                   navEpoch, catalogEpoch, addClicks, attempt, initial_items,
                   current_items, cart_items, expected_total,
                   displayed_total, report, payLog, ctx>>

\* add_product_to_cart on a handle: "clicked"; "timeout" when the button
\* never becomes clickable (TimeoutException, which Step 3 catches); and,
\* for a handle read before a navigation, "stale"
\* (StaleElementReferenceException, which Step 3 does not catch).
AddOutcomes(stale) ==
    IF stale THEN {"clicked", "timeout", "stale"} ELSE {"clicked", "timeout"}

\* The add of the first product.  On the moisturizer branch the test then
\* loads the cart page and goes back: two navigations.
AddFirst ==
    /\ pc = "add_first"
    /\ \E res \in AddOutcomes(catalogEpoch # navEpoch) :
          IF res = "clicked"
          THEN /\ addClicks' = Append(addClicks, <<"first", catalogEpoch # navEpoch>>)
               /\ navEpoch' = IF category = "moisturizers"
                              THEN navEpoch + 2 ELSE navEpoch
               /\ pc' = "select_second"
               /\ UNCHANGED <<outcome, failure>>
          ELSE /\ Fail(IF res = "timeout"
                       THEN "Error while selecting products"
                       ELSE "uncaught StaleElementReferenceException")
               /\ UNCHANGED <<addClicks, navEpoch>>
    /\ UNCHANGED <<call, temperature, category, all_products, first, second,
                   catalogEpoch, attempt, initial_items, current_items,
                   cart_items, expected_total, displayed_total, report,
                   payLog, ctx>>

\* Mutant of SelectSecond: the test for None is missing.
SelectSecondUnchecked ==
    /\ pc = "select_second"
    /\ second' = FindCheapestProduct(
                     FilterProductsByIngredient(all_products, SecondTag).products)
    /\ pc' = "add_second"
    /\ UNCHANGED <<call, outcome, failure, temperature, category,
                   all_products, first, navEpoch, catalogEpoch, addClicks,
                   attempt, initial_items, current_items, cart_items,
                   expected_total, displayed_total, report, payLog, ctx>>

\* Filter and cheapest for the second tag, on the list read before.
SelectSecond ==
    /\ pc = "select_second"
    /\ second' = FindCheapestProduct(
                     FilterProductsByIngredient(all_products, SecondTag).products)
    /\ IF second' = None
       THEN Fail("No second product found to add to cart.")
       ELSE /\ pc' = "add_second"
            /\ UNCHANGED <<outcome, failure>>
    /\ UNCHANGED <<call, temperature, category, all_products, first,
                   navEpoch, catalogEpoch, addClicks, attempt, initial_items,
                   current_items, cart_items, expected_total,
                   displayed_total, report, payLog, ctx>>

\* Mutant of AddSecond: the add button is clicked a second time.
AddSecondRepeated ==
    /\ pc = "add_second"
    /\ \E res \in AddOutcomes(catalogEpoch # navEpoch) :
          IF res = "clicked"
          THEN /\ addClicks' = addClicks
                                  \o <<<<"second", catalogEpoch # navEpoch>>,
                                       <<"second", catalogEpoch # navEpoch>>>>
               /\ pc' = "navigate_to_cart"
               /\ UNCHANGED <<outcome, failure>>
          ELSE /\ Fail(IF res = "timeout"
                       THEN "Error while selecting products"
                       ELSE "uncaught StaleElementReferenceException")
               /\ UNCHANGED addClicks
    /\ UNCHANGED <<call, temperature, category, all_products, first, second,
                   navEpoch, catalogEpoch, attempt, initial_items,
                   current_items, cart_items, expected_total,
                   displayed_total, report, payLog, ctx>>

\* The add of the second product.
AddSecond ==
    /\ pc = "add_second"
    /\ \E res \in AddOutcomes(catalogEpoch # navEpoch) :
          IF res = "clicked"
          THEN /\ addClicks' = Append(addClicks, <<"second", catalogEpoch # navEpoch>>)
               /\ pc' = "navigate_to_cart"
               /\ UNCHANGED <<outcome, failure>>
          ELSE /\ Fail(IF res = "timeout"
                       THEN "Error while selecting products"
                       ELSE "uncaught StaleElementReferenceException")
               /\ UNCHANGED addClicks
    /\ UNCHANGED <<call, temperature, category, all_products, first, second,
                   navEpoch, catalogEpoch, attempt, initial_items,
                   current_items, cart_items, expected_total,
                   displayed_total, report, payLog, ctx>>

\* Step 4 opens with cart.navigate_to_cart(): the look for the cart button
\* and the click on it raise without a navigation ("no_click"); after the
\* click the wait for the cart table may time out on the page the click
\* opened ("no_table"); Step 4 catches either.
NavigateToCart ==
    /\ pc = "navigate_to_cart"
    /\ \E res \in {"no_click", "no_table", "arrives"} :
          /\ navEpoch' = IF res = "no_click" THEN navEpoch ELSE navEpoch + 1
          /\ IF res = "arrives"
             THEN /\ pc' = "initial_read"
                  /\ UNCHANGED <<outcome, failure>>
             ELSE Fail("Cart validation or navigation to payment failed")
    /\ all_products' = <<>>
    /\ first' = None
    /\ second' = None
    /\ UNCHANGED <<call, temperature, category, catalogEpoch, addClicks,
                   attempt, initial_items, current_items, cart_items,
                   expected_total, displayed_total, report, payLog, ctx>>

\* initial_items = cart.get_cart_items() and the test that opens the loop
InitialRead ==
    /\ pc = "initial_read"
    /\ \E read \in CartReads :
          LET items == read.items
          IN
          /\ navEpoch' = IF read.navigated THEN navEpoch + 1 ELSE navEpoch
          /\ initial_items' = items
          /\ pc' = IF Len(items) < ExpectedItemCount
                   THEN "poll" ELSE "final_read"
    /\ UNCHANGED <<call, outcome, failure, temperature, category,
                   all_products, first, second, catalogEpoch,
                   addClicks, attempt, current_items, cart_items,
                   expected_total, displayed_total, report, payLog, ctx>>

\* Mutant of Poll: a `while True` loop on the cart page, with no count of
\* the attempts.
PollWithoutLimit ==
    /\ pc = "poll"
    /\ \E items \in {r.items : r \in CartReads} :
          /\ current_items' = items
          /\ pc' = IF Len(items) >= ExpectedItemCount
                   THEN "final_read" ELSE "poll"
    /\ attempt' = 1
    /\ UNCHANGED <<call, outcome, failure, temperature, category,
                   all_products, first, second, navEpoch, catalogEpoch,
                   addClicks, initial_items, cart_items, expected_total,
                   displayed_total, report, payLog, ctx>>

\* Mutant of Poll: the loop breaks only on more lines than expected.
PollStrict ==
    /\ pc = "poll"
    /\ attempt < MaxAttempts
    /\ \E read \in CartReads :
          LET items == read.items
          IN
          /\ navEpoch' = IF read.navigated THEN navEpoch + 1 ELSE navEpoch
          /\ current_items' = items
          /\ pc' = IF Len(items) > ExpectedItemCount
                   THEN "final_read" ELSE "poll"
    /\ attempt' = attempt + 1
    /\ UNCHANGED <<call, outcome, failure, temperature, category,
                   all_products, first, second, catalogEpoch,
                   addClicks, initial_items, cart_items, expected_total,
                   displayed_total, report, payLog, ctx>>

\* One pass of `for attempt in range(15)`: a read, and the break when it
\* yields two lines or more.
Poll ==
    /\ pc = "poll"
    /\ attempt < MaxAttempts
    /\ \E read \in CartReads :
          LET items == read.items
          IN
          /\ navEpoch' = IF read.navigated THEN navEpoch + 1 ELSE navEpoch
          /\ current_items' = items
          /\ pc' = IF Len(items) >= ExpectedItemCount
                   THEN "final_read" ELSE "poll"
    /\ attempt' = attempt + 1
    /\ UNCHANGED <<call, outcome, failure, temperature, category,
                   all_products, first, second, catalogEpoch,
                   addClicks, initial_items, cart_items, expected_total,
                   displayed_total, report, payLog, ctx>>

\* Mutant of PollExhausted: the count reported is that of the first read.
PollExhaustedInitial ==
    /\ pc = "poll"
    /\ attempt = MaxAttempts
    /\ Fail("Expected 2 items in cart, but found n after waiting")
    /\ report' = <<ExpectedItemCount, Len(initial_items)>>
    /\ UNCHANGED <<call, temperature, category, all_products, first, second,
                   navEpoch, catalogEpoch, addClicks, attempt, initial_items,
                   current_items, cart_items, expected_total,
                   displayed_total, payLog, ctx>>

\* The else clause of the loop: pytest.fail with the count of the last read.
PollExhausted ==
    /\ pc = "poll"
    /\ attempt = MaxAttempts
    /\ Fail("Expected 2 items in cart, but found n after waiting")
    /\ report' = <<ExpectedItemCount, Len(current_items)>>
    /\ UNCHANGED <<call, temperature, category, all_products, first, second,
                   navEpoch, catalogEpoch, addClicks, attempt, initial_items,
                   current_items, cart_items, expected_total,
                   displayed_total, payLog, ctx>>

\* The assertion on the number of lines.
CountIsExpected(items) == Len(items) = ExpectedItemCount

\* cart_items = cart.get_cart_items() and the assertion on its length
FinalRead ==
    /\ pc = "final_read"
    /\ \E read \in CartReads :
          LET items == read.items
          IN
          /\ navEpoch' = IF read.navigated THEN navEpoch + 1 ELSE navEpoch
          /\ cart_items' = items
          /\ IF CountIsExpected(items)
             THEN /\ pc' = "compare_totals"
                  /\ UNCHANGED <<outcome, failure, report>>
             ELSE /\ Fail("Cart validation or navigation to payment failed")
                  /\ report' = <<ExpectedItemCount, Len(items)>>
    /\ UNCHANGED <<call, temperature, category, all_products, first, second,
                   catalogEpoch, addClicks, attempt, initial_items,
                   current_items, expected_total, displayed_total, payLog,
                   ctx>>

\* Mutant of TotalsAgree: a displayed total of 0 is taken as not shown and
\* is not compared.
TotalsAgreeWhenShown(expected, displayed) ==
    displayed = 0 \/ expected = displayed

\* Mutant of TotalsAgree: the assertion always passes.
TotalsAgreeAlways(expected, displayed) == TRUE

\* The assertion on the totals.
TotalsAgree(expected, displayed) == expected = displayed

\* expected_total = cart.calculate_expected_total(), which reads the cart
\* again; displayed_total = cart.get_displayed_total(); the assertion.
CompareTotals ==
    /\ pc = "compare_totals"
    /\ \E read \in ExpectedTotals, displayed \in DisplayedTotals :
          LET expected == read.total
          IN
          /\ navEpoch' = IF read.navigated THEN navEpoch + 1 ELSE navEpoch
          /\ expected_total' = expected
          /\ displayed_total' = displayed
          /\ IF TotalsAgree(expected, displayed)
             THEN /\ pc' = "click_pay"
                  /\ UNCHANGED <<outcome, failure>>
             ELSE Fail("Cart validation or navigation to payment failed")
    /\ attempt' = 0
    /\ initial_items' = <<>>
    /\ current_items' = <<>>
    /\ UNCHANGED <<call, temperature, category, all_products, first, second,
                   catalogEpoch, addClicks, cart_items, report,
                   payLog, ctx>>

\* cart.click_pay_with_card(): it raises when the button is not found
ClickPay ==
    /\ pc = "click_pay"
    /\ \E found \in BOOLEAN :
          IF found
          THEN /\ payLog' = Append(payLog, "pay_button")
               /\ pc' = "fill_payment_form"
               /\ UNCHANGED <<outcome, failure>>
          ELSE /\ Fail("Cart validation or navigation to payment failed")
               /\ UNCHANGED payLog
    /\ UNCHANGED <<call, temperature, category, all_products, first, second,
                   navEpoch, catalogEpoch, addClicks, attempt, initial_items,
                   current_items, cart_items, expected_total,
                   displayed_total, report, ctx>>

\* payment.fill_payment_form(...)
FillForm ==
    /\ pc = "fill_payment_form"
    /\ \E o \in FillOutcomes :
          /\ payLog' = payLog \o FillPaymentForm(o).events
          /\ ctx' = ContextAfter(ctx, FillPaymentForm(o).events)
          /\ IF FillPaymentForm(o).raised
             THEN Fail("Cart validation or navigation to payment failed")
             ELSE /\ pc' = "submit_payment"
                  /\ UNCHANGED <<outcome, failure>>
    /\ UNCHANGED <<call, temperature, category, all_products, first, second,
                   navEpoch, catalogEpoch, addClicks, attempt, initial_items,
                   current_items, cart_items, expected_total,
                   displayed_total, report>>

\* payment.submit_payment(): the test drops the value it returns
Submit ==
    /\ pc = "submit_payment"
    /\ \E o \in SubmitOutcomes :
          /\ payLog' = payLog \o SubmitPayment(o).events
          /\ ctx' = ContextAfter(ctx, SubmitPayment(o).events)
    /\ pc' = "is_payment_successful"
    /\ UNCHANGED <<call, outcome, failure, temperature, category,
                   all_products, first, second, navEpoch, catalogEpoch,
                   addClicks, attempt, initial_items, current_items,
                   cart_items, expected_total, displayed_total, report>>

\* assert payment.is_payment_successful(): a fresh look for a success
\* message; then the test passes.
CheckPayment ==
    /\ pc = "is_payment_successful"
    /\ \E shown \in BOOLEAN :
          IF shown
          THEN /\ outcome' = "passed"
               /\ pc' = "done"
               /\ UNCHANGED failure
          ELSE Fail("Cart validation or navigation to payment failed")
    /\ UNCHANGED <<call, temperature, category, all_products, first, second,
                   navEpoch, catalogEpoch, addClicks, attempt, initial_items,
                   current_items, cart_items, expected_total,
                   displayed_total, report, payLog, ctx>>

Next ==
    \/ OpenHomepage
    \/ ReadTemperature
    \/ Route
    \/ ReadCatalog
    \/ SelectFirst
    \/ AddFirst
    \/ SelectSecond
    \/ AddSecond
    \/ NavigateToCart
    \/ InitialRead
    \/ Poll
    \/ PollExhausted
    \/ FinalRead
    \/ CompareTotals
    \/ ClickPay
    \/ FillForm
    \/ Submit
    \/ CheckPayment

Spec == Init /\ [][Next]_vars

\* The test is one thread of control and every call it makes returns or
\* raises within the bound of its waits: a step that can be taken is taken.
SpecLive == Spec /\ WF_vars(Next)

(***************************************************************************)
(* Claims on the test flow (checked under Spec).                           *)
(***************************************************************************)
\* C2: the pay button is clicked, and any payment operation performed, only
\* after a cart read of exactly 2 lines and with the expected total equal to
\* the displayed total; a count other than 2 or differing totals end the
\* test as failed with no payment operation performed.
C2_PayOnlyAfterReconciliation ==
    /\ payLog # <<>> =>
          /\ Len(cart_items) = 2
          /\ expected_total = displayed_total
    /\ report # <<>> => outcome = "failed" /\ payLog = <<>>
    /\ expected_total # displayed_total => outcome = "failed" /\ payLog = <<>>

\* C2 witness: the pay button was clicked on 2 lines and totals 500 and 500.
C2_Witness ==
    /\ Len(payLog) >= 1
    /\ payLog[1] = "pay_button"
    /\ Len(cart_items) = 2
    /\ expected_total = 500
    /\ displayed_total = 500

SelectionIncomplete ==
    \/ failure = "No first product found to add to cart."
    \/ failure = "No second product found to add to cart."

\* C3: an add, the cart navigation and everything after it are reached only
\* with the product of that side (and, from the cart on, both) found; when
\* a side is None the test has failed, the cart page was never read and no
\* payment operation was performed.
C3_IncompletePairStops ==
    /\ pc = "add_first" => first # None
    /\ pc \in {"add_second", "navigate_to_cart"} =>
          first # None /\ second # None
    /\ pc \in {"initial_read", "poll", "final_read", "compare_totals",
               "click_pay", "fill_payment_form", "submit_payment",
               "is_payment_successful"} \/ payLog # <<>> =>
          /\ Len(addClicks) = 2
          /\ addClicks[1][1] = "first"
          /\ addClicks[2][1] = "second"
    /\ SelectionIncomplete =>
          /\ outcome = "failed"
          /\ pc = "done"
          /\ first = None \/ second = None
          /\ Len(addClicks) < 2
          /\ initial_items = <<>> /\ cart_items = <<>> /\ attempt = 0
          /\ payLog = <<>>

\* C3 witness: the first product is in the cart, the second was not found,
\* and the test has failed.
C3_Witness ==
    /\ failure = "No second product found to add to cart."
    /\ first # None
    /\ second = None
    /\ Len(addClicks) = 1
    /\ outcome = "failed"

\* The read the polling stopped at, or the last one made.
LastRead == IF attempt = 0 THEN initial_items ELSE current_items

PollingExhausted ==
    failure = "Expected 2 items in cart, but found n after waiting"

CountAssertionFailed ==
    failure = "Cart validation or navigation to payment failed" /\ report # <<>>

\* C8: polling goes on only while every read so far had fewer than 2 lines
\* and stops at the first read with 2 or more; it is given up only after
\* the first read and all 15 polls had fewer than 2 lines; and the test
\* goes on to the totals exactly when the read that follows has 2 lines.
\* So a cart with fewer than 2 lines for k <= 15 reads and 2 lines from then
\* on takes the test to the comparison of the totals.
C8_PollingConverges ==
    /\ pc = "poll" =>
          Len(initial_items) < 2 /\ Len(LastRead) < 2 /\ attempt <= MaxAttempts
    /\ pc = "final_read" =>
          /\ Len(LastRead) >= 2
          /\ attempt > 0 => Len(initial_items) < 2
    /\ pc = "compare_totals" => Len(cart_items) = 2 /\ outcome = "running"
    /\ PollingExhausted =>
          /\ attempt = MaxAttempts
          /\ Len(initial_items) < 2
          /\ Len(current_items) < 2
    /\ CountAssertionFailed => Len(LastRead) >= 2 /\ Len(cart_items) # 2

\* C8 witness: no line at the first read, 2 lines at the third poll, 2 lines
\* at the read that follows, and the test is at the totals.
C8_Witness ==
    /\ pc = "compare_totals"
    /\ initial_items = <<>>
    /\ attempt = 3
    /\ Len(current_items) = 2
    /\ Len(cart_items) = 2

\* C9: when the polls are used up the test fails with a report of the
\* expected count, 2, and the count of the last read taken; no further
\* cart read and no payment operation is made.
C9_ExhaustionReport ==
    PollingExhausted =>
        /\ outcome = "failed"
        /\ pc = "done"
        /\ attempt = MaxAttempts
        /\ report = <<2, Len(current_items)>>
        /\ cart_items = <<>>
        /\ payLog = <<>>

\* C9 witness: the polls are used up, the first read had no line and the
\* last read had one.
C9_Witness ==
    /\ PollingExhausted
    /\ initial_items = <<>>
    /\ Len(current_items) = 1
    /\ report = <<2, 1>>

\* The total fields without a digit run, and the absent one.
UnparsableTotals ==
    {total \in FlowTotals :
        \/ ~total.present
        \/ ~\E i \in 1..Len(total.text) : total.text[i] \in Digits}

\* C12: get_displayed_total yields 0 for a total field that is absent or
\* holds no digit run, and whenever the displayed total read is such a 0
\* and the expected total is not 0 the test has failed with no payment
\* operation performed.
C12_UnparsableTotalFails ==
    /\ \A total \in UnparsableTotals : GetDisplayedTotal(total) = 0
    /\ /\ displayed_total \in {GetDisplayedTotal(total) :
                                   total \in UnparsableTotals}
       /\ expected_total # 0
       => /\ outcome = "failed"
          /\ pc = "done"
          /\ payLog = <<>>

\* C12 witness: two lines, an expected total of 500, a displayed total of 0,
\* and the test has failed at the cart.
C12_Witness ==
    /\ Len(cart_items) = 2
    /\ expected_total = 500
    /\ displayed_total = 0
    /\ failure = "Cart validation or navigation to payment failed"
    /\ payLog = <<>>

\* The positions of the operation e in the payment log.
Positions(e) == {i \in 1..Len(payLog) : payLog[i] = e}

\* The operation at position i was performed inside the payment frame.
InFrameAt(i) == ContextAfter("top", SubSeq(payLog, 1, i - 1)) = "frame"

\* C13: submit_payment returns False when the submit control was clicked
\* and the wait for a success message ran out, and a test in which that
\* wait ran out ends as failed.
C13_UnconfirmedSubmitFails ==
    /\ ~SubmitPayment("no_success").ret
    /\ pc = "done" /\ Positions("wait_elapsed") # {} => outcome = "failed"

\* C16: the submit control is clicked inside the payment frame and only
\* after email, card number, expiry and CVC were written, in this order,
\* inside the frame; the wait for a success message comes only after the
\* click; submit_payment is called only after fill_payment_form returned,
\* is_payment_successful only after submit_payment, and the test passes only
\* on the answer of is_payment_successful.
C16_LogOrder ==
    /\ \A i \in Positions("submit_click") :
          /\ InFrameAt(i)
          /\ \E a, b, c, d \in 1..Len(payLog) :
                /\ a < b /\ b < c /\ c < d /\ d < i
                /\ payLog[a] = "email" /\ InFrameAt(a)
                /\ payLog[b] = "card" /\ InFrameAt(b)
                /\ payLog[c] = "expiry" /\ InFrameAt(c)
                /\ payLog[d] = "cvc" /\ InFrameAt(d)
    /\ \A i \in Positions("success_seen") \cup Positions("wait_elapsed") :
          \E j \in Positions("submit_click") : j < i
    /\ \A i \in Positions("email") :
          \E j \in Positions("enter_frame") : j < i

C16_StageOrder ==
    /\ pc' = "submit_payment" /\ pc # "submit_payment" =>
          pc = "fill_payment_form"
    /\ pc' = "is_payment_successful" /\ pc # "is_payment_successful" =>
          pc = "submit_payment"
    /\ outcome' = "passed" /\ outcome # "passed" =>
          pc = "is_payment_successful"

C16_PaymentOrder == [](C16_LogOrder) /\ [][C16_StageOrder]_vars

\* C16 witness: the test passed after the four fields, the click and the
\* success message.
C16_Witness ==
    /\ outcome = "passed"
    /\ Positions("cvc") # {}
    /\ Positions("submit_click") # {}
    /\ Positions("success_seen") # {}

\* C17: the test passes only if the submit control was clicked.
C17_PassOnlyAfterSubmit ==
    outcome = "passed" => Positions("submit_click") # {}

\* No product page, cart page or payment step was reached.
NothingAfterHomepage ==
    /\ category = ""
    /\ navEpoch <= 1
    /\ all_products = <<>>
    /\ addClicks = <<>>
    /\ attempt = 0
    /\ initial_items = <<>> /\ current_items = <<>> /\ cart_items = <<>>
    /\ payLog = <<>>

\* C18: once a temperature t with 19 <= t <= 34 was read and routed on, the
\* test has ended as skipped, not failed, with no category page opened, no
\* product added and no cart or payment step run; and the test is skipped
\* in no other case.
C18_ModerateIsSkipped ==
    /\ /\ 19 <= temperature /\ temperature <= 34
       /\ pc \notin {"open_homepage", "read_temperature", "route"}
       => outcome = "skipped"
    /\ outcome = "skipped" =>
          /\ 19 <= temperature /\ temperature <= 34
          /\ pc = "done"
          /\ NothingAfterHomepage

\* C18 witness: the reading was 34 and the test was skipped.
C18_Witness ==
    /\ temperature = 34
    /\ outcome = "skipped"
    /\ pc = "done"

\* The stage a step of the test belongs to.
StageAt(p) ==
    CASE p = "open_homepage" -> "homepage"
      [] p = "read_temperature" -> "temperature"
      [] p \in {"route", "get_all_products", "select_first", "add_first",
                "select_second", "add_second"} -> "selection"
      [] p \in {"navigate_to_cart", "initial_read", "poll", "final_read",
                "compare_totals", "click_pay"} -> "cart"
      [] p \in {"fill_payment_form", "submit_payment",
                "is_payment_successful"} -> "payment"
      [] OTHER -> "none"

\* The stage a failure message names.  "Cart validation or navigation to
\* payment failed" names the cart validation and the way to the payment
\* page; a message of an exception no handler caught names no stage.
StageNamed(msg) ==
    CASE msg = "Failed to load homepage" -> "homepage"
      [] msg = "Could not read temperature" -> "temperature"
      [] msg \in {"Error while selecting products",
                  "No first product found to add to cart.",
                  "No second product found to add to cart."} -> "selection"
      [] msg \in {"Expected 2 items in cart, but found n after waiting",
                  "Cart validation or navigation to payment failed"} -> "cart"
      [] OTHER -> "none"

C19_Step ==
    /\ outcome = "running"
    /\ outcome' = "failed" => StageNamed(failure') = StageAt(pc)

\* C19: a step is taken only while no stage has failed, and the message of
\* a failure names the stage of the step that failed.
C19_FailureNamesStage == [][C19_Step]_vars

\* C20: get_current_temperature raises on a text without a digit; when the
\* reading of the temperature failed the test has failed with that report,
\* no temperature was taken, no category button was clicked and no later
\* step was run.
C20_UnreadableTemperatureIsFatal ==
    /\ \A d \in FlowDisplays :
          /\ d.present
          /\ ~\E i \in 1..Len(d.text) : d.text[i] \in Digits
          => GetCurrentTemperature(d).exc # "none"
    /\ pc \notin {"open_homepage", "read_temperature"}
          /\ failure # "Could not read temperature"
          /\ failure # "Failed to load homepage"
          => \E d \in FlowDisplays :
                /\ \E i \in 1..Len(d.text) : d.text[i] \in Digits
                /\ temperature = GetCurrentTemperature(d).value
    /\ failure = "Could not read temperature" =>
          /\ outcome = "failed"
          /\ pc = "done"
          /\ temperature = 0
          /\ NothingAfterHomepage

\* C20 witness: the reading failed and the test has failed on it.
C20_Witness ==
    /\ failure = "Could not read temperature"
    /\ outcome = "failed"
    /\ navEpoch = 1
    /\ category = ""

\* C21: an add-to-cart action is about to use, and every add-to-cart click
\* has used, a handle of a catalog read made since the last navigation.
C21_NoHandleAcrossNavigation ==
    /\ pc \in {"add_first", "add_second"} => catalogEpoch = navEpoch
    /\ \A i \in 1..Len(addClicks) : ~addClicks[i][2]

\* C22: when the count and the totals have let the test through to the
\* payment, the expected total that was compared is the sum of the prices
\* of the lines whose count was asserted.
C22_OneSnapshotGatesPayment ==
    pc \in {"click_pay", "fill_payment_form", "submit_payment",
            "is_payment_successful"} \/ payLog # <<>> =>
        /\ Len(cart_items) = 2
        /\ expected_total = SumPrices(cart_items)

\* C23: every run of the test ends, with exactly one of the outcomes
\* passed, skipped and failed, whatever the pages show; the test is over
\* exactly when it has an outcome.
C23_Terminates ==
    /\ [](pc = "done" <=> outcome \in {"passed", "skipped", "failed"})
    /\ [](outcome \in {"running", "passed", "skipped", "failed"})
    /\ <>[](pc = "done")

\* C23 witness: the cart never showed 2 lines; the test has ended as failed
\* after the last poll.
C23_Witness ==
    /\ pc = "done"
    /\ outcome = "failed"
    /\ attempt = MaxAttempts
    /\ Len(current_items) < 2

\* C24: in one run the pay button, each field of the payment form and the
\* submit control are each operated at most once, whatever failed.
C24_PaymentNotRetried ==
    \A e \in {"pay_button", "email", "card", "expiry", "cvc", "zip",
              "submit_click"} :
        Cardinality(Positions(e)) <= 1

\* C24 witness: the form was filled and submitted once, no success message
\* came, and the test has failed without a second attempt.
C24_Witness ==
    /\ outcome = "failed"
    /\ Cardinality(Positions("email")) = 1
    /\ Cardinality(Positions("submit_click")) = 1
    /\ Positions("wait_elapsed") # {}

\* C25: the add buttons are clicked in the order first, second, each at
\* most once, and both have been clicked once when the test goes on to the
\* cart.
C25_AddOrder ==
    /\ Len(addClicks) <= 2
    /\ Len(addClicks) >= 1 => addClicks[1][1] = "first"
    /\ Len(addClicks) = 2 => addClicks[2][1] = "second"
    /\ pc \in {"select_second", "add_second"} => Len(addClicks) = 1
    /\ pc \in {"navigate_to_cart", "initial_read", "poll", "final_read",
               "compare_totals", "click_pay", "fill_payment_form",
               "submit_payment", "is_payment_successful"}
          \/ outcome = "passed" => Len(addClicks) = 2

\* C25 witness: both products were added and the test is on its way to the
\* cart.
C25_Witness ==
    /\ pc = "navigate_to_cart"
    /\ first # None /\ second # None
    /\ Len(addClicks) = 2
    /\ addClicks[1][1] = "first"
    /\ addClicks[2][1] = "second"

====
